---- MODULE Spec2Model ----
(***************************************************************************)
(* A model of local-rag (src/main.go): the chunker, the per-file ingest    *)
(* with its store transaction, and the ranking query.                      *)
(*                                                                         *)
(* Text is a sequence of one-character strings, so byte offsets, lengths   *)
(* and line numbers are those of the Go code.  Offsets are 0-based as in   *)
(* Go; t[i+1] is the byte at offset i.                                     *)
(***************************************************************************)
EXTENDS Integers, Sequences, FiniteSets, TLC

VARIABLES
    config,      \* Neo4jRAG.config: MaxChunkSize, ChunkOverlap
    \* the chunker on its own
    content,     \* chunkFile's input text
    language,    \* chunkFile's input language label
    chunks,      \* chunkFile's returned list
    cpc,         \* "input" before chunkFile has run, "chunked" after
    \* ingest
    fs,          \* the files on disk: path -> text
    store,       \* the graph store: Project, File, Chunk nodes and relationships
    pc,          \* "idle", or "indexing" while IndexDirectory runs
    rootDir,     \* IndexDirectory's dir
    files,       \* the list findCodeFiles returned
    idx,         \* how many of files the loop has handled
    processed,   \* the paths passed to processFile in this run, in order
    outcomes,    \* what each of those calls returned
    returned,    \* what IndexDirectory returned: "none" yet, "nil", "error"
    lastCall,    \* the last processFile call: its input and its writes
    ingested,    \* per path, the text of its last successful ingest
    runs,        \* IndexDirectory runs started
    edits,       \* file edits made
    \* search
    cosine,      \* per Chunk id, its cosine similarity to the query, in hundredths
    request,     \* the arguments of the search call
    results,     \* what the search call returned
    spc,         \* "ready" before the search call, "done" after
    \* the walk on its own
    tree,        \* the directory tree: path -> [dir, size, err]
    walkRoot,    \* findCodeFiles's root
    walked,      \* the list findCodeFiles returned
    wpc,         \* "ready" before findCodeFiles has run, "walked" after
    \* a function of the program called on its own
    input,       \* the arguments of the call
    output,      \* what the call returned
    opc,         \* "ready" before the call, "done" after
    \* the HTTP demo (src/web-ui/simple-server.go), one request to /api/llm-query
    httpRequest, \* the request: its method and query parameters
    hpc,         \* the handler: "received", "select" (waiting), "done"
    worker,      \* the goroutine: "none", "start", "wait", "send", "done"
    child,       \* the child process: "none", "running", "exited", "killed"
    cmdArgs,     \* the arguments of the command
    result,      \* what CombinedOutput returned to the goroutine
    responses,   \* the responses written, in order
    \* the interactive query loop of main
    stdin,       \* standard input: the lines not yet read and the unfinished last line
    prompts,     \* how many times the prompt was printed (counted in rounds)
    asked,       \* the queries passed to processQuery, in order
    mpc          \* "loop" while the loop runs, "exited" after its break

chunkVars == <<content, language, chunks, cpc>>
ingestVars == <<fs, store, pc, rootDir, files, idx, processed, outcomes, returned,
                lastCall, ingested, runs, edits>>
searchVars == <<cosine, request, results, spc>>
walkVars == <<tree, walkRoot, walked, wpc>>
callVars == <<input, output, opc>>
httpVars == <<httpRequest, hpc, worker, child, cmdArgs, result, responses>>
mainVars == <<stdin, prompts, asked, mpc>>
moreVars == <<walkVars, callVars, httpVars, mainVars>>
vars == <<config, chunkVars, ingestVars, searchVars, moreVars>>

(***************************************************************************)
(* Bounds and program constants                                            *)
(***************************************************************************)
MaxLines == 3          \* lines of a text given to the chunker on its own
MaxIngestLines == 2    \* lines of a file on disk
MaxRuns == 2           \* IndexDirectory runs
MaxEdits == 1          \* file edits between runs
MaxFailIndex == 2      \* the chunks whose statements may fail in a transaction

MaxFileBytes == 1048576

DefaultMaxChunkSize == 1000
DefaultChunkOverlap == 100
SmallChunkSize == 16

(***************************************************************************)
(* Characters and strings                                                  *)
(***************************************************************************)
Lower == {"a","b","c","d","e","f","g","h","i","j","k","l","m",
          "n","o","p","q","r","s","t","u","v","w","x","y","z"}
Upper == {"A","B","C","D","E","F","G","H","I","J","K","L","M",
          "N","O","P","Q","R","S","T","U","V","W","X","Y","Z"}
Digit == {"0","1","2","3","4","5","6","7","8","9"}

\* regexp class \w
IsWord(c) == c \in Lower \cup Upper \cup Digit \cup {"_"}
\* regexp class \s
IsSpace(c) == c \in {" ", "\t", "\n", "\r", "\f"}

\* The byte at 0-based offset i, or "" past the end.
At(t, i) == IF i >= 0 /\ i < Len(t) THEN t[i + 1] ELSE ""

\* Go's t[a:b]
Slice(t, a, b) == SubSeq(t, a + 1, b)

Repeat(c, n) == [i \in 1..n |-> c]

Max(a, b) == IF a >= b THEN a ELSE b
Min(a, b) == IF a <= b THEN a ELSE b

\* strconv / %d of a non-negative integer
RECURSIVE Itoa(_)
Itoa(n) ==
    LET d == <<"0","1","2","3","4","5","6","7","8","9">>[(n % 10) + 1]
    IN IF n < 10 THEN <<d>> ELSE Itoa(n \div 10) \o <<d>>

SetMin(S) == CHOOSE x \in S : \A y \in S : x <= y

\* The least element of S, or d when S is empty.
MinOr(S, d) == IF S = {} THEN d ELSE SetMin(S)

\* The elements of a finite set of integers in ascending order.
RECURSIVE Ascending(_)
Ascending(S) ==
    IF S = {} THEN <<>> ELSE <<SetMin(S)>> \o Ascending(S \ {SetMin(S)})

\* The offsets of the bytes of t equal to c, ascending.
OffsetsOf(t, c) == Ascending({i \in 0..(Len(t) - 1) : t[i + 1] = c})

\* The pieces of t between the separators at the offsets nl.
SplitAt(t, nl) ==
    [k \in 1..(Len(nl) + 1) |->
        Slice(t, IF k = 1 THEN 0 ELSE nl[k - 1] + 1,
                 IF k = Len(nl) + 1 THEN Len(t) ELSE nl[k])]

\* strings.Split(t, "\n"): the lines of t; one empty line for the empty text.
SplitLines(t) == SplitAt(t, OffsetsOf(t, "\n"))

\* strings.Join(ls, "\n")
RECURSIVE JoinLines(_)
JoinLines(ls) ==
    IF Len(ls) = 0 THEN <<>>
    ELSE IF Len(ls) = 1 THEN ls[1]
    ELSE ls[1] \o <<"\n">> \o JoinLines(Tail(ls))

\* md5.Sum + hex.EncodeToString, as an ideal (collision-free) hash.
MD5(x) == [md5 |-> x]

(***************************************************************************)
(* chunkGoCode: the two regular expressions.  Each operator matches one    *)
(* piece of the pattern and hands the offset it reached to the next.       *)
(* \s, \w and the literals are disjoint, so the greedy runs never have to  *)
(* give bytes back; only the lazy (.*?) has a choice, taken leftmost.      *)
(***************************************************************************)
\* The offset of the first byte at or after i that is not \s.
RECURSIVE SkipSpace(_, _)
SkipSpace(t, i) == IF IsSpace(At(t, i)) THEN SkipSpace(t, i + 1) ELSE i

\* The offset of the first byte at or after i that is not \w.
RECURSIVE SkipWord(_, _)
SkipWord(t, i) == IF IsWord(At(t, i)) THEN SkipWord(t, i + 1) ELSE i

\* The literal "func" at offset i.
FuncAt(t, i) ==
    At(t, i) = "f" /\ At(t, i + 1) = "u" /\ At(t, i + 2) = "n" /\ At(t, i + 3) = "c"

\* `{` at offset h: the offset after it, or -1.
BraceAt(t, h) == IF At(t, h) = "{" THEN h + 1 ELSE -1

\* `\w+\s*{` where the word spans [e, g).
TailWord(t, e, g) == IF g > e THEN BraceAt(t, SkipSpace(t, g)) ELSE -1

\* `(?:\s+\w+)?\s*{` where the leading white space spans [q, e).
TailFrom(t, q, e) ==
    IF At(t, e) = "{" THEN e + 1
    ELSE IF e > q THEN TailWord(t, e, SkipWord(t, e))
    ELSE -1

\* `(?:\s+\w+)?\s*{` from offset q: the offset after the brace, or -1.
TailEnd(t, q) == TailFrom(t, q, SkipSpace(t, q))

\* The end of the line that holds offset p (`.` matches no newline).
LineEnd(t, p) == MinOr({i \in p..(Len(t) - 1) : t[i + 1] = "\n"}, Len(t))

\* The least offset in [p, lineEnd) of a `)` after which the tail matches.
FirstCloser(t, p, lineEnd) ==
    MinOr({q \in p..(lineEnd - 1) : t[q + 1] = ")" /\ TailEnd(t, q + 1) # -1}, -1)

\* `(.*?)\)` + tail, the parameter list starting at offset p: the offset of
\* the closing parenthesis, or -1.
ParamClose(t, p) == FirstCloser(t, p, LineEnd(t, p))

NoMatch == [ok |-> FALSE, start |-> 0, end |-> 0, name |-> <<>>, sig |-> <<>>,
            isMethod |-> FALSE]

\* The match: name in [b, c), parameters in [d + 1, p).
MatchOf(t, i, b, c, d, p, isMethod) ==
    IF p # -1
    THEN [ok |-> TRUE, start |-> i, end |-> TailEnd(t, p + 1),
          name |-> Slice(t, b, c), sig |-> Slice(t, d + 1, p), isMethod |-> isMethod]
    ELSE NoMatch

\* `\((.*?)\)...` with the opening parenthesis expected at offset d.
ParamsAt(t, i, b, c, d, isMethod) ==
    IF At(t, d) = "(" THEN MatchOf(t, i, b, c, d, ParamClose(t, d + 1), isMethod)
    ELSE NoMatch

\* `(\w+)\s*\((.*?)\)(?:\s+\w+)?\s*{` where the name spans [b, c).
NameAndParams(t, i, b, c, isMethod) ==
    IF c > b THEN ParamsAt(t, i, b, c, SkipSpace(t, c), isMethod) ELSE NoMatch

\* `\s+` of funcPattern spans [i + 4, b).
FuncName(t, i, b) ==
    IF b > i + 4 THEN NameAndParams(t, i, b, SkipWord(t, b), FALSE) ELSE NoMatch

\* funcPattern anchored at offset i.
funcPatternAt(t, i) ==
    IF FuncAt(t, i) THEN FuncName(t, i, SkipSpace(t, i + 4)) ELSE NoMatch

\* `\s+(\w+)...` after the receiver's `)` at offset r4; n0 ends the white space.
MethodName(t, i, r4, n0) ==
    IF n0 > r4 + 1 THEN NameAndParams(t, i, n0, SkipWord(t, n0), TRUE) ELSE NoMatch

\* `\w+\)` : the receiver type spans [r3, r4).
RecvClose(t, i, r3, r4) ==
    IF r4 > r3 /\ At(t, r4) = ")" THEN MethodName(t, i, r4, SkipSpace(t, r4 + 1))
    ELSE NoMatch

\* `\*?\w+` from offset r2, after white space that spans [r1, r2).
RecvType(t, i, r1, r2) ==
    IF r2 > r1
    THEN IF At(t, r2) = "*" THEN RecvClose(t, i, r2 + 1, SkipWord(t, r2 + 1))
         ELSE RecvClose(t, i, r2, SkipWord(t, r2))
    ELSE NoMatch

\* `\w+\s+` : the receiver name spans [b + 1, r1).
RecvName(t, i, b, r1) ==
    IF r1 > b + 1 THEN RecvType(t, i, r1, SkipSpace(t, r1)) ELSE NoMatch

\* `\s+\(` : white space spans [i + 4, b).
RecvOpen(t, i, b) ==
    IF b > i + 4 /\ At(t, b) = "(" THEN RecvName(t, i, b, SkipWord(t, b + 1))
    ELSE NoMatch

\* methodPattern anchored at offset i.
methodPatternAt(t, i) ==
    IF FuncAt(t, i) THEN RecvOpen(t, i, SkipSpace(t, i + 4)) ELSE NoMatch

PatternAt(t, i, isMethod) ==
    IF isMethod THEN methodPatternAt(t, i) ELSE funcPatternAt(t, i)

\* FindAllStringSubmatchIndex: successive non-overlapping leftmost matches.
\* cands: the offsets where the pattern matches, ascending; pos: the end of the
\* previous match.
RECURSIVE FindFrom(_, _, _, _)
TakeMatch(t, cands, m, isMethod) ==
    <<m>> \o FindFrom(t, Tail(cands), m.end, isMethod)

FindFrom(t, cands, pos, isMethod) ==
    IF Len(cands) = 0 THEN <<>>
    ELSE IF cands[1] < pos THEN FindFrom(t, Tail(cands), pos, isMethod)
    ELSE TakeMatch(t, cands, PatternAt(t, cands[1], isMethod), isMethod)

FindAll(t, isMethod) ==
    FindFrom(t, Ascending({i \in 0..(Len(t) - 4) : PatternAt(t, i, isMethod).ok}),
             0, isMethod)

\* sort.Slice by start: the two lists are each ascending and share no start.
RECURSIVE MergeByStart(_, _)
MergeByStart(xs, ys) ==
    IF Len(xs) = 0 THEN ys
    ELSE IF Len(ys) = 0 THEN xs
    ELSE IF xs[1].start < ys[1].start
         THEN <<xs[1]>> \o MergeByStart(Tail(xs), ys)
         ELSE <<ys[1]>> \o MergeByStart(xs, Tail(ys))

allMatches(t) == MergeByStart(FindAll(t, FALSE), FindAll(t, TRUE))

\* linePositions: the offset of each line's first byte, then one past the end.
RECURSIVE LinePositionsFrom(_, _)
LinePositionsFrom(ls, pos) ==
    IF Len(ls) = 0 THEN <<pos>>
    ELSE <<pos>> \o LinePositionsFrom(Tail(ls), pos + Len(ls[1]) + 1)

linePositions(t) == LinePositionsFrom(SplitLines(t), 0)

\* sort.Search(len(lp), func(i) lp[i] > pos): the least 0-based index, or len(lp).
SearchAbove(lp, pos) == MinOr({i - 1 : i \in {j \in 1..Len(lp) : lp[j] > pos}}, Len(lp))

\* The 0-based line of offset pos: the search result less one, clamped at 0.
LineOf(lp, pos) == Max(SearchAbove(lp, pos) - 1, 0)

EmptyStr == <<>>
GoLabel == <<"G", "o">>
PythonLabel == <<"P","y","t","h","o","n">>
UnknownLabel == <<"U","n","k","n","o","w","n">>
FunctionType == <<"f","u","n","c","t","i","o","n">>
MethodType == <<"m","e","t","h","o","d">>
ChunkType == <<"c","h","u","n","k">>

CodeChunk(filePath, projectPath, text, startLine, endLine, entityType, name, sig, lang) ==
    [FilePath |-> filePath, ProjectPath |-> projectPath, Content |-> text,
     StartLine |-> startLine, EndLine |-> endLine, EntityType |-> entityType,
     Name |-> name, Signature |-> sig, Language |-> lang,
     ID |-> EmptyStr, Hash |-> EmptyStr, Embedding |-> <<>>]

\* The end of match i's chunk: the start of the next match, or the end of file.
EndPos(t, ms, i) == IF i < Len(ms) THEN ms[i + 1].start ELSE Len(t)

GoChunk(t, m, lp, endPos, filePath, projectPath) ==
    CodeChunk(filePath, projectPath, Slice(t, m.start, endPos),
              LineOf(lp, m.start) + 1, LineOf(lp, endPos) + 1,
              IF m.isMethod THEN MethodType ELSE FunctionType,
              m.name, m.sig, GoLabel)

GoChunks(t, ms, lp, filePath, projectPath) ==
    [i \in 1..Len(ms) |-> GoChunk(t, ms[i], lp, EndPos(t, ms, i), filePath, projectPath)]

chunkGoCode(t, filePath, projectPath) ==
    GoChunks(t, allMatches(t), linePositions(t), filePath, projectPath)

(***************************************************************************)
(* chunkBySize                                                             *)
(***************************************************************************)
ChunkName(s, e) == ChunkType \o <<"_">> \o Itoa(s) \o <<"_">> \o Itoa(e)

\* The bytes of the lines, each with its newline.
RECURSIVE SizeOf(_)
SizeOf(ls) == IF Len(ls) = 0 THEN 0 ELSE Len(ls[1]) + 1 + SizeOf(Tail(ls))

\* An overlap of one line more than configured.
OverlapOneMore(cfg, currentChunk) == Min(cfg.ChunkOverlap + 1, Len(currentChunk))

\* The overlap kept for the next chunk: min(ChunkOverlap, len(currentChunk)) lines.
OverlapLines(cfg, currentChunk) == Min(cfg.ChunkOverlap, Len(currentChunk))

SizeChunk(cur, startLine, endLine, filePath, projectPath, lang) ==
    CodeChunk(filePath, projectPath, JoinLines(cur), startLine, endLine, ChunkType,
              ChunkName(startLine, endLine), EmptyStr, lang)

\* The loop over lines: line i is appended to currentChunk (cur is the result);
\* the chunk is saved when it is big enough or the last line was reached, and
\* the next one starts with the last ov lines of it.
RECURSIVE SizeLoop(_, _, _, _, _, _, _, _)
SaveChunk(cfg, ls, i, cur, startLine, ov, filePath, projectPath, lang) ==
    <<SizeChunk(cur, startLine, startLine + Len(cur) - 1, filePath, projectPath, lang)>>
    \o SizeLoop(cfg, ls, i + 1, SubSeq(cur, Len(cur) - ov + 1, Len(cur)),
                (startLine + Len(cur) - 1) - ov + 1, filePath, projectPath, lang)

AddLine(cfg, ls, i, cur, startLine, filePath, projectPath, lang) ==
    IF SizeOf(cur) >= cfg.MaxChunkSize \/ i = Len(ls)
    THEN SaveChunk(cfg, ls, i, cur, startLine, OverlapLines(cfg, cur),
                   filePath, projectPath, lang)
    ELSE SizeLoop(cfg, ls, i + 1, cur, startLine, filePath, projectPath, lang)

SizeLoop(cfg, ls, i, currentChunk, startLine, filePath, projectPath, lang) ==
    IF i > Len(ls) THEN <<>>
    ELSE AddLine(cfg, ls, i, Append(currentChunk, ls[i]), startLine,
                 filePath, projectPath, lang)

SplitBySize(cfg, t, ls, filePath, projectPath, lang) ==
    IF Len(t) <= cfg.MaxChunkSize
    THEN <<SizeChunk(<<t>>, 1, Len(ls), filePath, projectPath, lang)>>
    ELSE SizeLoop(cfg, ls, 1, <<>>, 1, filePath, projectPath, lang)

chunkBySize(cfg, t, filePath, projectPath, lang) ==
    SplitBySize(cfg, t, SplitLines(t), filePath, projectPath, lang)

(***************************************************************************)
(* chunkFile                                                               *)
(***************************************************************************)
\* fmt.Sprintf("%s:%d:%d", filePath, StartLine, EndLine)
IdStr(filePath, s, e) == filePath \o <<":">> \o Itoa(s) \o <<":">> \o Itoa(e)

WithIdAndHash(filePath, c) ==
    [c EXCEPT !.ID = MD5(IdStr(filePath, c.StartLine, c.EndLine)),
              !.Hash = MD5(c.Content)]

WithIds(filePath, cs) == [i \in 1..Len(cs) |-> WithIdAndHash(filePath, cs[i])]

\* A selection that keeps the structural chunks whenever there is one.
AnyStructural(structural) == Len(structural) >= 1

\* Whether the structural chunks are kept (two or more) or replaced.
UseStructural(structural) == Len(structural) >= 2

\* A selection without the fallback to the size-based chunker.
StructuralOnly(cfg, t, filePath, projectPath, lang, structural) == structural

SelectChunks(cfg, t, filePath, projectPath, lang, structural) ==
    IF UseStructural(structural) THEN structural
    ELSE chunkBySize(cfg, t, filePath, projectPath, lang)

\* A chunker that tries the function patterns on every language.
StructuralAlways(t, filePath, projectPath, lang) == chunkGoCode(t, filePath, projectPath)

\* The structural chunks: those of chunkGoCode for Go, none for other languages.
StructuralOf(t, filePath, projectPath, lang) ==
    IF lang = GoLabel THEN chunkGoCode(t, filePath, projectPath) ELSE <<>>

chunkFile(cfg, t, filePath, projectPath, lang) ==
    WithIds(filePath,
            SelectChunks(cfg, t, filePath, projectPath, lang,
                         StructuralOf(t, filePath, projectPath, lang)))

(***************************************************************************)
(* Inputs of the chunker: texts made of up to MaxLines lines               *)
(***************************************************************************)
LineHello == <<"f", "u", "n", "c", " ", "H", "e", "l", "l", "o", "(", "n", "a", "m", "e", " ", "s", "t", "r", "i", "n", "g", ")", " ", "s", "t", "r", "i", "n", "g", " ", "{", " ", "r", "e", "t", "u", "r", "n", " ", "\"", "h", "i", "\"", " ", "}">>
LinePackage == <<"p", "a", "c", "k", "a", "g", "e", " ", "p">>
LineMethod == <<"f", "u", "n", "c", " ", "(", "r", " ", "*", "T", ")", " ", "M", "(", "x", " ", "i", "n", "t", ")", " ", "{">>
LineTwoFuncs == <<"f", "u", "n", "c", " ", "A", "(", ")", " ", "{", "}", " ", "f", "u", "n", "c", " ", "B", "(", ")", " ", "{", "}">>
LineClose == <<"}">>
LineLong == Repeat("x", DefaultMaxChunkSize - 1)

LineTemplates == {LineHello, LinePackage, LineMethod, LineTwoFuncs, LineClose,
                  EmptyStr, LineLong}

PathGo == <<"/","w","/","p","/","a",".","g","o">>
PathPy == <<"/","w","/","p","/","q","/","b",".","p","y">>
ProjectDir == <<"/","w","/","p">>
RootW == <<"/","w">>

DefaultConfig == [MaxChunkSize |-> DefaultMaxChunkSize, ChunkOverlap |-> DefaultChunkOverlap]
Configs == {DefaultConfig,
            [MaxChunkSize |-> SmallChunkSize, ChunkOverlap |-> 0],
            [MaxChunkSize |-> SmallChunkSize, ChunkOverlap |-> 1]}

Texts(n) == UNION {{JoinLines(ls) : ls \in [1..k -> LineTemplates]} : k \in 1..n}

PathOf(lang) == IF lang = GoLabel THEN PathGo ELSE PathPy

EmptyStore == [projects |-> <<>>, files |-> <<>>, belongsTo |-> {},
               chunks |-> <<>>, partOf |-> {}]

NoText == [has |-> FALSE, text |-> EmptyStr]

NoCall == [path |-> EmptyStr, text |-> EmptyStr, prev |-> NoText,
           outcome |-> "none", writes |-> <<>>, dirty |-> FALSE, steps |-> <<>>]

NoRequest == [op |-> "none"]

NoResults == [err |-> "none", chunks |-> <<>>, ran |-> <<>>]

\* The search variables while another specification runs.
SearchParked ==
    /\ cosine = <<>>
    /\ request = NoRequest
    /\ results = NoResults
    /\ spc = "parked"

\* The walk variables while another specification runs.
WalkParked ==
    /\ tree = <<>>
    /\ walkRoot = EmptyStr
    /\ walked = <<>>
    /\ wpc = "parked"

NoValue == [none |-> TRUE]

\* The variables of a call on its own while another specification runs.
CallParked ==
    /\ input = NoValue
    /\ output = NoValue
    /\ opc = "parked"

\* The variables of the HTTP demo while another specification runs.
HttpParked ==
    /\ httpRequest = NoValue
    /\ hpc = "parked"
    /\ worker = "none"
    /\ child = "none"
    /\ cmdArgs = <<>>
    /\ result = NoValue
    /\ responses = <<>>

\* The variables of the specifications that follow the search, parked.
MainParked ==
    /\ stdin = NoValue
    /\ prompts = 0
    /\ asked = <<>>
    /\ mpc = "parked"

MoreParked == WalkParked /\ CallParked /\ HttpParked /\ MainParked

\* The ingest variables other than the store while no ingest runs.
IngestIdle ==
    /\ fs = <<>>
    /\ pc = "idle"
    /\ rootDir = EmptyStr
    /\ files = <<>>
    /\ idx = 0
    /\ processed = <<>>
    /\ outcomes = <<>>
    /\ returned = "none"
    /\ lastCall = NoCall
    /\ ingested = <<>>
    /\ runs = 0
    /\ edits = 0

\* The ingest variables while the chunker runs on its own.
IngestParked == store = EmptyStore /\ IngestIdle

(***************************************************************************)
(* The chunker on its own: a text, a language and a configuration are      *)
(* drawn, then chunkFile runs.                                             *)
(***************************************************************************)
ChunkInit ==
    /\ IngestParked
    /\ SearchParked
    /\ MoreParked
    /\ config \in Configs
    /\ content \in Texts(MaxLines)
    /\ language \in {GoLabel, PythonLabel}
    /\ chunks = <<>>
    /\ cpc = "input"

ChunkFile ==
    /\ cpc = "input"
    /\ chunks' = chunkFile(config, content, PathOf(language), ProjectDir, language)
    /\ cpc' = "chunked"
    /\ UNCHANGED <<config, moreVars, content, language, ingestVars, searchVars>>

ChunkNext == ChunkFile

SpecChunk == ChunkInit /\ [][ChunkNext]_vars

(***************************************************************************)
(* Paths and language labels                                               *)
(***************************************************************************)
MaxOr(S, d) == IF S = {} THEN d ELSE CHOOSE x \in S : \A y \in S : x >= y

\* strings.LastIndex(t, c) for a one-byte c: 0-based, -1 when absent.
LastIndex(t, c) == MaxOr({i \in 0..(Len(t) - 1) : t[i + 1] = c}, -1)

\* filepath.Base of a clean path with at least one element.
Base(path) == Slice(path, LastIndex(path, "/") + 1, Len(path))

\* The suffix of a file name from its last dot; empty without a dot.
ExtOfName(name, dot) == IF dot < 0 THEN EmptyStr ELSE Slice(name, dot, Len(name))

\* filepath.Ext
Ext(path) == ExtOfName(Base(path), LastIndex(Base(path), "."))

UpperSeq == <<"A","B","C","D","E","F","G","H","I","J","K","L","M",
              "N","O","P","Q","R","S","T","U","V","W","X","Y","Z">>
LowerSeq == <<"a","b","c","d","e","f","g","h","i","j","k","l","m",
              "n","o","p","q","r","s","t","u","v","w","x","y","z">>

ToLowerChar(c) ==
    IF c \in Upper THEN LowerSeq[CHOOSE i \in 1..26 : UpperSeq[i] = c] ELSE c

\* strings.ToLower
ToLower(t) == [i \in 1..Len(t) |-> ToLowerChar(t[i])]

langMap ==
    {<<<<".","g","o">>, <<"G","o">>>>,
     <<<<".","p","y">>, <<"P","y","t","h","o","n">>>>,
     <<<<".","j","s">>, <<"J","a","v","a","S","c","r","i","p","t">>>>,
     <<<<".","t","s">>, <<"T","y","p","e","S","c","r","i","p","t">>>>,
     <<<<".","j","a","v","a">>, <<"J","a","v","a">>>>,
     <<<<".","c">>, <<"C">>>>,
     <<<<".","c","p","p">>, <<"C","+","+">>>>,
     <<<<".","h">>, <<"C","/","C","+","+"," ","H","e","a","d","e","r">>>>,
     <<<<".","h","p","p">>, <<"C","+","+"," ","H","e","a","d","e","r">>>>,
     <<<<".","c","s">>, <<"C","#">>>>,
     <<<<".","p","h","p">>, <<"P","H","P">>>>,
     <<<<".","r","b">>, <<"R","u","b","y">>>>,
     <<<<".","r","s">>, <<"R","u","s","t">>>>,
     <<<<".","s","w","i","f","t">>, <<"S","w","i","f","t">>>>,
     <<<<".","k","t">>, <<"K","o","t","l","i","n">>>>,
     <<<<".","s","h">>, <<"S","h","e","l","l">>>>,
     <<<<".","h","t","m","l">>, <<"H","T","M","L">>>>,
     <<<<".","c","s","s">>, <<"C","S","S">>>>,
     <<<<".","s","q","l">>, <<"S","Q","L">>>>,
     <<<<".","m","d">>, <<"M","a","r","k","d","o","w","n">>>>}

getLanguageFromExt(ext) ==
    IF \E e \in langMap : e[1] = ext
    THEN (CHOOSE e \in langMap : e[1] = ext)[2]
    ELSE UnknownLabel

\* Whether path lies under the directory root.
Under(root, path) ==
    /\ Len(path) > Len(root) + 1
    /\ SubSeq(path, 1, Len(root)) = root
    /\ path[Len(root) + 1] = "/"

\* filepath.Rel(rootDir, filePath) for a file under rootDir.
Rel(root, path) == Slice(path, Len(root) + 1, Len(path))

\* strings.Split(relPath, "/")
PathParts(rel) == SplitAt(rel, OffsetsOf(rel, "/"))

\* filepath.Join(rootDir, part)
JoinPath(root, part) == root \o <<"/">> \o part

\* processFile's project path: rootDir, or rootDir joined with the first
\* directory of the relative path.
ProjectOfParts(root, parts) ==
    IF Len(parts) > 1 THEN JoinPath(root, parts[1]) ELSE root

projectPathOf(root, path) == ProjectOfParts(root, PathParts(Rel(root, path)))

(***************************************************************************)
(* The embedding service, as processFile sees it                           *)
(***************************************************************************)
\* The vector the model gives a text: a fixed function of the text.
EmbeddingOf(text) == <<Len(text) % 3, Len(OffsetsOf(text, "\n")) % 3>>

\* The embeddings field of the body the service answers with, by the kind of
\* answer: "ok" one vector per text in input order; "fewer" the last vector
\* missing; "more" one vector too many; "short" vectors of another length;
\* "status" a non-2xx answer whose JSON body holds no embeddings.
VectorsOf(texts) == [i \in 1..Len(texts) |-> EmbeddingOf(texts[i])]

Shortened(vs) == [i \in 1..Len(vs) |-> SubSeq(vs[i], 1, Len(vs[i]) - 1)]

ServiceVectors(kind, texts) ==
    IF kind = "ok" THEN VectorsOf(texts)
    ELSE IF kind = "fewer" THEN SubSeq(VectorsOf(texts), 1, Len(texts) - 1)
    ELSE IF kind = "more" THEN Append(VectorsOf(texts), EmbeddingOf(EmptyStr))
    ELSE IF kind = "short" THEN Shortened(VectorsOf(texts))
    ELSE <<>>

\* getEmbeddings: an error when the request fails or the body does not
\* decode ("error"); otherwise the decoded embeddings, whatever the status.
getEmbeddings(kind, texts) ==
    IF kind = "error" THEN [err |-> TRUE, embeddings |-> <<>>]
    ELSE [err |-> FALSE, embeddings |-> ServiceVectors(kind, texts)]

\* The texts in the opposite order.
ReversedTexts(cs) == [i \in 1..Len(cs) |-> cs[Len(cs) + 1 - i].Content]

\* generateEmbeddings's texts: texts[i] = chunk.Content for every chunk.
TextsOf(cs) == [i \in 1..Len(cs) |-> cs[i].Content]

\* generateEmbeddings's loop over the returned vectors: chunks[i].Embedding =
\* embedding.  A chunk past the last vector keeps its empty Embedding.
WithEmbeddings(cs, vs) ==
    [i \in 1..Len(cs) |-> IF i <= Len(vs) THEN [cs[i] EXCEPT !.Embedding = vs[i]] ELSE cs[i]]

(***************************************************************************)
(* storeChunks: the statements of the transaction.  created_at and         *)
(* updated_at are not modelled.                                            *)
(***************************************************************************)
\* MERGE (p:Project {path}) ON CREATE SET name
MergeProject(st, projectPath) ==
    IF projectPath \in DOMAIN st.projects THEN st
    ELSE [st EXCEPT !.projects = (projectPath :> [name |-> Base(projectPath)]) @@ @]

\* MERGE (f:File {path}) ON CREATE SET name, language
FileNode(st, filePath) ==
    IF filePath \in DOMAIN st.files THEN st
    ELSE [st EXCEPT !.files = (filePath :> [name |-> Base(filePath),
                                            language |-> getLanguageFromExt(Ext(filePath))])
                              @@ @]

\* WITH f MATCH (p:Project {path}) MERGE (f)-[:BELONGS_TO]->(p)
BelongsTo(st, filePath, projectPath) ==
    IF projectPath \in DOMAIN st.projects
    THEN [st EXCEPT !.belongsTo = @ \cup {<<filePath, projectPath>>}]
    ELSE st

MergeFile(st, filePath, projectPath) ==
    BelongsTo(FileNode(st, filePath), filePath, projectPath)

\* The properties the chunk statement sets.
ChunkRow(c) ==
    [content |-> c.Content, file_path |-> c.FilePath, start_line |-> c.StartLine,
     end_line |-> c.EndLine, entity_type |-> c.EntityType, name |-> c.Name,
     signature |-> c.Signature, language |-> c.Language, hash |-> c.Hash,
     embedding |-> c.Embedding]

\* An upsert that first deletes the other Chunk rows of the chunk's file.
ReplacesFileRows(st, c) ==
    [st EXCEPT !.chunks = (c.ID :> ChunkRow(c))
                          @@ [id \in {x \in DOMAIN @ : @[x].file_path # c.FilePath} |-> @[id]],
               !.partOf = {e \in @ : e[2] # c.FilePath} \cup {<<c.ID, c.FilePath>>}]

\* MERGE (c:Chunk {id}) SET ... WITH c MATCH (f:File {path}) MERGE (c)-[:PART_OF]->(f)
UpsertChunk(st, c) ==
    [st EXCEPT !.chunks = (c.ID :> ChunkRow(c)) @@ @,
               !.partOf = IF c.FilePath \in DOMAIN st.files
                          THEN @ \cup {<<c.ID, c.FilePath>>} ELSE @]

\* MATCH (c:Chunk {id}) RETURN c.hash: a row exists and holds the same hash.
Unchanged(st, c) == c.ID \in DOMAIN st.chunks /\ st.chunks[c.ID].hash = c.Hash

NoFail == [at |-> "none", k |-> 0]

\* The statements that may fail: the project or file statement, the lookup or
\* upsert of chunk k, the commit.
Fails ==
    {NoFail, [at |-> "project", k |-> 0], [at |-> "file", k |-> 0],
     [at |-> "commit", k |-> 0]}
    \cup {[at |-> a, k |-> k] : a \in {"lookup", "upsert"}, k \in 1..MaxFailIndex}

\* The loop over chunks inside the transaction function.
RECURSIVE ChunkLoop(_, _, _, _)
ChunkLoop(tx, cs, i, fail) ==
    IF i > Len(cs) THEN tx
    ELSE IF fail.at = "lookup" /\ fail.k = i THEN [tx EXCEPT !.err = TRUE]
    ELSE IF Unchanged(tx.st, cs[i]) THEN ChunkLoop(tx, cs, i + 1, fail)
    ELSE IF fail.at = "upsert" /\ fail.k = i THEN [tx EXCEPT !.err = TRUE]
    ELSE ChunkLoop([st |-> UpsertChunk(tx.st, cs[i]),
                    writes |-> Append(tx.writes, cs[i].ID), err |-> FALSE],
                   cs, i + 1, fail)

AfterProject(st, cs, filePath, projectPath, fail) ==
    IF fail.at = "file" THEN [st |-> st, writes |-> <<>>, err |-> TRUE]
    ELSE ChunkLoop([st |-> MergeFile(st, filePath, projectPath), writes |-> <<>>,
                    err |-> FALSE], cs, 1, fail)

\* The function passed to WriteTransaction, run on the store st.
TxWork(st, cs, filePath, projectPath, fail) ==
    IF fail.at = "project" THEN [st |-> st, writes |-> <<>>, err |-> TRUE]
    ELSE AfterProject(MergeProject(st, projectPath), cs, filePath, projectPath, fail)

\* A store whose statements commit one by one: a failed transaction function
\* leaves what it had written.
KeepsPartial(st, tx) == tx.st

\* What a transaction that ended in an error leaves in the store: it is
\* rolled back.
RolledBack(st, tx) == st

\* session.WriteTransaction: commit when the function returned no error.
WriteTransaction(st, tx, fail) ==
    IF tx.err \/ fail.at = "commit"
    THEN [st |-> RolledBack(st, tx), err |-> TRUE, writes |-> <<>>,
          dirty |-> tx.st # st]
    ELSE [st |-> tx.st, err |-> FALSE, writes |-> tx.writes, dirty |-> tx.st # st]

storeChunks(st, cs, filePath, projectPath, fail) ==
    WriteTransaction(st, TxWork(st, cs, filePath, projectPath, fail), fail)

(***************************************************************************)
(* processFile                                                             *)
(***************************************************************************)
\* dirty: the transaction function had changed something when it ended.
Result(st, outcome, writes, dirty, steps) ==
    [st |-> st, outcome |-> outcome, writes |-> writes, dirty |-> dirty, steps |-> steps]

\* A step of processFile after the read: the function called and, for the
\* embedding service, the texts sent.
Step(op, texts) == [op |-> op, texts |-> texts]

\* The steps up to and including the call of the embedding service.
Embedded(cs) == <<Step("chunkFile", <<>>), Step("getEmbeddings", TextsOf(cs))>>

Stored(r, steps) ==
    Result(r.st, IF r.err THEN "store_error" ELSE "ok", r.writes, r.dirty,
           Append(steps, Step("storeChunks", <<>>)))

\* From the embedding call on: env.embed is the kind of the service's answer.
\* A vector past the last chunk is an index out of range: the program panics.
EmbedAndStore(st, cs, filePath, projectPath, env) ==
    IF Len(cs) = 0 THEN Result(st, "skipped", <<>>, FALSE, <<Step("chunkFile", <<>>)>>)
    ELSE IF getEmbeddings(env.embed, TextsOf(cs)).err
         THEN Result(st, "embed_error", <<>>, FALSE, Embedded(cs))
    ELSE IF Len(getEmbeddings(env.embed, TextsOf(cs)).embeddings) > Len(cs)
         THEN Result(st, "panic", <<>>, FALSE, Embedded(cs))
    ELSE Stored(storeChunks(st, WithEmbeddings(cs, getEmbeddings(env.embed, TextsOf(cs)).embeddings),
                            filePath, projectPath, env.fail),
                Embedded(cs))

ChunkAndStore(st, cfg, text, filePath, projectPath, lang, env) ==
    EmbedAndStore(st, chunkFile(cfg, text, filePath, projectPath, lang),
                  filePath, projectPath, env)

processFile(st, cfg, text, filePath, root, env) ==
    IF ~env.read THEN Result(st, "read_error", <<>>, FALSE, <<>>)
    ELSE IF Len(text) > MaxFileBytes THEN Result(st, "skipped", <<>>, FALSE, <<>>)
    ELSE ChunkAndStore(st, cfg, text, filePath, projectPathOf(root, filePath),
                       getLanguageFromExt(ToLower(Ext(filePath))), env)

\* What the read, the embedding service and the store do during one call.
Envs ==
    {[read |-> FALSE, embed |-> "ok", fail |-> NoFail],
     [read |-> TRUE, embed |-> "error", fail |-> NoFail]}
    \cup {[read |-> TRUE, embed |-> "ok", fail |-> f] : f \in Fails}

(***************************************************************************)
(* findCodeFiles: filepath.Walk and the callback that filters its entries  *)
(***************************************************************************)
\* The extensions of code files (the keys of the map).
extensions ==
    {<<".","g","o">>, <<".","p","y">>, <<".","j","s">>, <<".","j","s","x">>,
     <<".","t","s">>, <<".","t","s","x">>, <<".","j","a","v","a">>,
     <<".","c">>, <<".","c","p","p">>, <<".","c","c">>, <<".","c","x","x">>,
     <<".","h">>, <<".","h","p","p">>, <<".","h","x","x">>, <<".","c","s">>,
     <<".","p","h","p">>, <<".","r","b">>, <<".","r","s">>,
     <<".","s","w","i","f","t">>, <<".","k","t">>,
     <<".","s","c","a","l","a">>, <<".","p","l">>, <<".","p","m">>,
     <<".","r">>, <<".","l","u","a">>, <<".","g","r","o","o","v","y">>,
     <<".","d","a","r","t">>, <<".","e","l","m">>, <<".","e","x">>,
     <<".","e","x","s">>, <<".","e","r","l">>, <<".","h","r","l">>,
     <<".","c","l","j">>, <<".","h","s">>, <<".","f","s">>,
     <<".","f","s","x">>, <<".","m","l">>, <<".","m","l","i">>,
     <<".","s","h">>, <<".","b","a","s","h">>, <<".","z","s","h">>,
     <<".","f","i","s","h">>, <<".","p","s","1">>, <<".","b","a","t">>,
     <<".","c","m","d">>, <<".","h","t","m","l">>, <<".","h","t","m">>,
     <<".","x","h","t","m","l">>, <<".","c","s","s">>,
     <<".","s","c","s","s">>, <<".","s","a","s","s">>,
     <<".","l","e","s","s">>, <<".","v","u","e">>,
     <<".","s","v","e","l","t","e">>, <<".","j","s","o","n">>,
     <<".","y","a","m","l">>, <<".","y","m","l">>, <<".","x","m","l">>,
     <<".","t","o","m","l">>, <<".","i","n","i">>, <<".","s","q","l">>,
     <<".","g","r","a","p","h","q","l">>, <<".","p","r","o","t","o">>,
     <<".","m","d">>, <<".","r","s","t">>, <<".","t","e","x">>,
     <<".","a","d","o","c">>}

\* The directory names never descended into (the keys of the map).
ignoreDirs ==
    {<<"n","o","d","e","_","m","o","d","u","l","e","s">>,
     <<"v","e","n","d","o","r">>,
     <<"b","o","w","e","r","_","c","o","m","p","o","n","e","n","t","s">>,
     <<"j","s","p","m","_","p","a","c","k","a","g","e","s">>,
     <<"p","a","c","k","a","g","e","s">>, <<".","g","i","t">>,
     <<".","s","v","n">>, <<".","h","g">>, <<".","b","z","r">>,
     <<".","v","e","n","v">>, <<"v","e","n","v">>, <<"e","n","v">>,
     <<".","e","n","v">>, <<"v","i","r","t","u","a","l","e","n","v">>,
     <<"_","_","p","y","c","a","c","h","e","_","_">>,
     <<"s","i","t","e","-","p","a","c","k","a","g","e","s">>,
     <<"d","i","s","t">>, <<"b","u","i","l","d">>, <<"o","u","t">>,
     <<"b","i","n">>, <<"t","a","r","g","e","t">>,
     <<"o","u","t","p","u","t">>, <<"r","e","l","e","a","s","e">>,
     <<"d","e","b","u","g">>, <<".","i","d","e","a">>,
     <<".","v","s","c","o","d","e">>, <<".","v","s">>,
     <<".","e","c","l","i","p","s","e">>,
     <<".","s","e","t","t","i","n","g","s">>, <<"t","m","p">>,
     <<"t","e","m","p">>, <<"c","a","c","h","e">>,
     <<".","c","a","c","h","e">>,
     <<".","s","a","s","s","-","c","a","c","h","e">>, <<"d","o","c","s">>,
     <<"d","o","c">>, <<"c","o","v","e","r","a","g","e">>,
     <<".","n","y","c","_","o","u","t","p","u","t">>,
     <<".","c","o","v","e","r","a","g","e">>,
     <<"h","t","m","l","c","o","v">>, <<"l","o","g","s">>, <<"l","o","g">>}

\* The file name patterns never returned.
ignoreFilePatterns ==
    <<<<"*",".","m","i","n",".","j","s">>,
     <<"*",".","m","i","n",".","c","s","s">>,
     <<"*",".","g","e","n","e","r","a","t","e","d",".","*">>,
     <<"*","_","g","e","n","e","r","a","t","e","d",".","*">>,
     <<"*",".","g",".","*">>, <<"*",".","p","b",".","*">>,
     <<"*",".","e","x","e">>, <<"*",".","d","l","l">>, <<"*",".","s","o">>,
     <<"*",".","d","y","l","i","b">>, <<"*",".","c","l","a","s","s">>,
     <<"*",".","o">>, <<"*",".","o","b","j">>, <<"*",".","a">>,
     <<"*",".","l","i","b">>, <<"*",".","p","y","c">>,
     <<"*",".","p","y","o">>, <<"*",".","z","i","p">>,
     <<"*",".","t","a","r">>, <<"*",".","g","z">>, <<"*",".","b","z","2">>,
     <<"*",".","x","z">>, <<"*",".","r","a","r">>, <<"*",".","7","z">>,
     <<"*",".","j","p","g">>, <<"*",".","j","p","e","g">>,
     <<"*",".","p","n","g">>, <<"*",".","g","i","f">>,
     <<"*",".","b","m","p">>, <<"*",".","i","c","o">>,
     <<"*",".","s","v","g">>, <<"*",".","w","e","b","p">>,
     <<"*",".","m","p","3">>, <<"*",".","m","p","4">>,
     <<"*",".","w","a","v">>, <<"*",".","a","v","i">>,
     <<"*",".","m","o","v">>, <<"*",".","w","e","b","m">>,
     <<"*",".","l","o","c","k">>,
     <<"p","a","c","k","a","g","e","-","l","o","c","k",".","j","s","o","n">>,
     <<"y","a","r","n",".","l","o","c","k">>,
     <<"C","a","r","g","o",".","l","o","c","k">>, <<"*","~">>,
     <<"*",".","b","a","k">>, <<"*",".","s","w","p">>,
     <<"*",".","s","w","o">>, <<"*",".","c","s","v">>,
     <<"*",".","t","s","v">>, <<"*",".","d","b">>,
     <<"*",".","s","q","l","i","t","e">>,
     <<"*",".","s","q","l","i","t","e","3">>, <<"*",".","l","o","g">>>>

maxFileSize == 1048576

\* The printable bytes in ascending order (the backquote, which no path of
\* the model holds, left out).
Bytes ==
    <<" ", "!", "\"", "#", "$", "%", "&", "'", "(", ")", "*", "+", ",", "-",
     ".", "/", "0", "1", "2", "3", "4", "5", "6", "7", "8", "9", ":", ";",
     "<", "=", ">", "?", "@", "A", "B", "C", "D", "E", "F", "G", "H", "I",
     "J", "K", "L", "M", "N", "O", "P", "Q", "R", "S", "T", "U", "V", "W",
     "X", "Y", "Z", "[", "\\", "]", "^", "_", "a", "b", "c", "d", "e", "f",
     "g", "h", "i", "j", "k", "l", "m", "n", "o", "p", "q", "r", "s", "t",
     "u", "v", "w", "x", "y", "z", "{", "|", "}", "~">>

ByteRank(c) == CHOOSE i \in 1..Len(Bytes) : Bytes[i] = c

\* a < b for Go strings: at the first offset where they differ, or by length.
FirstDiff(a, b) == MinOr({i \in 1..Min(Len(a), Len(b)) : a[i] # b[i]}, 0)
LessAt(a, b, i) == IF i = 0 THEN Len(a) < Len(b) ELSE ByteRank(a[i]) < ByteRank(b[i])
StringLess(a, b) == LessAt(a, b, FirstDiff(a, b))

\* strings.HasPrefix
HasPrefix(t, p) == Len(t) >= Len(p) /\ SubSeq(t, 1, Len(p)) = p

\* strings.Contains
StringsContains(t, k) == \E i \in 0..(Len(t) - Len(k)) : Slice(t, i, i + Len(k)) = k

\* filepath.Match for a pattern of literals, * and ? (the patterns of the
\* table hold no class and no escape): * and ? match no separator.
RECURSIVE Match(_, _)
Match(pattern, name) ==
    IF Len(pattern) = 0 THEN Len(name) = 0
    ELSE IF pattern[1] = "*"
         THEN \E k \in 0..Len(name) :
                  /\ \A x \in 1..k : name[x] # "/"
                  /\ Match(Tail(pattern), SubSeq(name, k + 1, Len(name)))
    ELSE IF pattern[1] = "?"
         THEN Len(name) > 0 /\ name[1] # "/" /\ Match(Tail(pattern), Tail(name))
    ELSE Len(name) > 0 /\ name[1] = pattern[1] /\ Match(Tail(pattern), Tail(name))

\* A callback that skips no directory for its leading dot.
NeverHidden(baseName) == FALSE

\* The callback skips hidden directories.
HiddenDir(baseName) == HasPrefix(baseName, <<".">>) /\ baseName # <<".">> /\ baseName # <<".", ".">>

\* The callback's test for virtual environment paths.
VenvPath(path) ==
    \/ /\ StringsContains(path, <<"v","e","n","v","/","l","i","b","/","p","y","t","h","o","n">>)
       /\ StringsContains(path, <<"s","i","t","e","-","p","a","c","k","a","g","e","s">>)
    \/ /\ StringsContains(path, <<"e","n","v","/","l","i","b","/","p","y","t","h","o","n">>)
       /\ StringsContains(path, <<"s","i","t","e","-","p","a","c","k","a","g","e","s">>)

\* Whether the callback returns filepath.SkipDir for the directory path.
SkipsDir(path) ==
    \/ HiddenDir(Base(path))
    \/ Base(path) \in ignoreDirs
    \/ \E i \in 1..Len(PathParts(path)) : PathParts(path)[i] \in ignoreDirs
    \/ VenvPath(path)

IgnoredFile(fileName) ==
    \E i \in 1..Len(ignoreFilePatterns) : Match(ignoreFilePatterns[i], fileName)

\* Whether the callback appends the file path of the given size to files.
AppendsFile(path, size) ==
    /\ ~(size > maxFileSize)
    /\ ~HasPrefix(Base(path), <<".">>)
    /\ ~IgnoredFile(Base(path))
    /\ ToLower(Ext(path)) \in extensions

\* filepath.Dir of a clean absolute path below the file system root.
Dir(path) == Slice(path, 0, LastIndex(path, "/"))

\* A directory tree maps a path to [dir, size, err]: whether it is a
\* directory, its size, and whether Lstat fails on it.
\* Whether filepath.Walk(root) calls the callback on path with a nil error:
\* the root when Lstat succeeds on it, an entry of a directory the walk
\* reached and the callback did not skip.
RECURSIVE Reached(_, _, _)
Reached(disk, root, path) ==
    /\ path \in DOMAIN disk
    /\ ~disk[path].err
    /\ \/ path = root
       \/ /\ Under(root, path)
          /\ Reached(disk, root, Dir(path))
          /\ disk[Dir(path)].dir
          /\ ~SkipsDir(Dir(path))

\* The paths the callback appends.
Appended(disk, root) ==
    {p \in DOMAIN disk : Reached(disk, root, p) /\ ~disk[p].dir /\ AppendsFile(p, disk[p].size)}

\* Whether the walk comes to p before q: filepath.Walk reads the names of a
\* directory sorted, and walks an entry's subtree before the next entry.
FirstDiffPart(a, b) == MinOr({i \in 1..Min(Len(a), Len(b)) : a[i] # b[i]}, 0)
PartsBefore(a, b, i) == IF i = 0 THEN Len(a) < Len(b) ELSE StringLess(a[i], b[i])
WalkedBefore(p, q) == PartsBefore(PathParts(p), PathParts(q), FirstDiffPart(PathParts(p), PathParts(q)))

\* The paths of S in walk order.
RECURSIVE InWalkOrder(_)
InWalkOrder(S) ==
    IF S = {} THEN <<>>
    ELSE <<CHOOSE p \in S : \A q \in S \ {p} : WalkedBefore(p, q)>>
         \o InWalkOrder(S \ {CHOOSE p \in S : \A q \in S \ {p} : WalkedBefore(p, q)})

\* The directories above a path.
DirsAbove(path) == {Slice(path, 0, i) : i \in {j \in 1..(Len(path) - 1) : path[j + 1] = "/"}}

\* The tree that holds the files of fs, each of the size of its text, and
\* their directories.
TreeOf(disk) ==
    [p \in DOMAIN disk \cup UNION {DirsAbove(q) : q \in DOMAIN disk} |->
        IF p \in DOMAIN disk THEN [dir |-> FALSE, size |-> Len(disk[p]), err |-> FALSE]
        ELSE [dir |-> TRUE, size |-> 0, err |-> FALSE]]

\* filepath.Walk with the callback, on a tree: the files in walk order.
WalkTree(disk, root) == InWalkOrder(Appended(disk, root))

\* findCodeFiles on the files of the ingest model.
findCodeFiles(disk, root) == WalkTree(TreeOf(disk), root)

(***************************************************************************)
(* IndexDirectory                                                          *)
(***************************************************************************)
IsError(outcome) == outcome \in {"read_error", "embed_error", "store_error"}

\* A loop that returns the first error of processFile.
AbortOnError(outcome) == IF IsError(outcome) THEN "abort" ELSE "continue"

\* What the loop does after a processFile call: it logs an error and goes on.
AfterFile(outcome) == "continue"

LineA == <<"f", "u", "n", "c", " ", "A", "(", ")", " ", "{", "}">>
LineA2 == <<"f", "u", "n", "c", " ", "A", "(", ")", " ", "{", "x", "}">>
IngestLines == {LineA, LineA2, LineTwoFuncs}

\* The Go file has up to MaxIngestLines lines, the other file one.
MaxLinesOf(p) == IF p = PathGo THEN MaxIngestLines ELSE 1

IngestTexts(p) ==
    UNION {{JoinLines(ls) : ls \in [1..k -> IngestLines]} : k \in 1..MaxLinesOf(p)}

\* The texts one edit away from the lines ls: a line replaced, the last line
\* dropped, a line appended.
EditsOf(p, ls) ==
    {JoinLines([ls EXCEPT ![i] = l]) : i \in 1..Len(ls), l \in IngestLines}
    \cup (IF Len(ls) > 1 THEN {JoinLines(SubSeq(ls, 1, Len(ls) - 1))} ELSE {})
    \cup (IF Len(ls) < MaxLinesOf(p) THEN {JoinLines(Append(ls, l)) : l \in IngestLines}
          ELSE {})

Roots == {RootW, ProjectDir}

ChunkParked ==
    /\ content = EmptyStr
    /\ language = EmptyStr
    /\ chunks = <<>>
    /\ cpc = "parked"

Init ==
    /\ ChunkParked
    /\ SearchParked
    /\ MoreParked
    /\ config = DefaultConfig
    /\ fs \in {f \in [{PathGo, PathPy} -> IngestTexts(PathGo)] :
                 f[PathPy] \in IngestTexts(PathPy)}
    /\ store = EmptyStore
    /\ pc = "idle"
    /\ rootDir = EmptyStr
    /\ files = <<>>
    /\ idx = 0
    /\ processed = <<>>
    /\ outcomes = <<>>
    /\ returned = "none"
    /\ lastCall = NoCall
    /\ ingested = [p \in {PathGo, PathPy} |-> NoText]
    /\ runs = 0
    /\ edits = 0

\* IndexDirectory is called: the walk.
StartIndex ==
    /\ pc = "idle"
    /\ runs < MaxRuns
    /\ \E root \in Roots :
          /\ rootDir' = root
          /\ files' = findCodeFiles(fs, root)
    /\ pc' = "indexing"
    /\ idx' = 0
    /\ processed' = <<>>
    /\ outcomes' = <<>>
    /\ returned' = "none"
    /\ lastCall' = NoCall
    /\ runs' = runs + 1
    /\ UNCHANGED <<config, moreVars, chunkVars, searchVars, fs, store, ingested, edits>>

\* The state after processFile(path) returned r.
Processed(path, r) ==
    /\ store' = r.st
    /\ processed' = Append(processed, path)
    /\ outcomes' = Append(outcomes, r.outcome)
    /\ lastCall' = [path |-> path, text |-> fs[path], prev |-> ingested[path],
                    outcome |-> r.outcome, writes |-> r.writes, dirty |-> r.dirty,
                    steps |-> r.steps]
    /\ ingested' = IF r.outcome = "ok"
                   THEN [ingested EXCEPT ![path] = [has |-> TRUE, text |-> fs[path]]]
                   ELSE ingested
    /\ IF IsError(r.outcome) /\ AfterFile(r.outcome) = "abort"
       THEN /\ pc' = "idle"
            /\ returned' = "error"
            /\ idx' = idx
       ELSE /\ pc' = pc
            /\ returned' = returned
            /\ idx' = idx + 1

\* One turn of the loop: processFile on the next file.
ProcessNext ==
    /\ pc = "indexing"
    /\ idx < Len(files)
    /\ \E env \in Envs :
          Processed(files[idx + 1],
                    processFile(store, config, fs[files[idx + 1]], files[idx + 1],
                                rootDir, env))
    /\ UNCHANGED <<config, moreVars, chunkVars, searchVars, fs, rootDir, files, runs, edits>>

\* The loop is over: IndexDirectory returns nil.
FinishIndex ==
    /\ pc = "indexing"
    /\ idx = Len(files)
    /\ pc' = "idle"
    /\ returned' = "nil"
    /\ UNCHANGED <<config, moreVars, chunkVars, searchVars, fs, store, rootDir, files, idx, processed,
                   outcomes, lastCall, ingested, runs, edits>>

\* Between two runs a file on disk is rewritten.  What was observed of the
\* run before is forgotten.
EditFile ==
    /\ pc = "idle"
    /\ runs >= 1
    /\ edits < MaxEdits
    /\ \E p \in DOMAIN fs :
          \E t \in EditsOf(p, SplitLines(fs[p])) \ {fs[p]} :
             fs' = [fs EXCEPT ![p] = t]
    /\ edits' = edits + 1
    /\ processed' = <<>>
    /\ outcomes' = <<>>
    /\ returned' = "none"
    /\ lastCall' = NoCall
    /\ UNCHANGED <<config, moreVars, chunkVars, searchVars, store, pc, rootDir, files, idx, ingested, runs>>

Next == StartIndex \/ ProcessNext \/ FinishIndex \/ EditFile

Spec == Init /\ [][Next]_vars

(***************************************************************************)
(* extractKeywords                                                         *)
(***************************************************************************)
\* The offsets where a field of strings.Fields starts.
FieldStarts(t) ==
    {i \in 0..(Len(t) - 1) : ~IsSpace(At(t, i)) /\ (i = 0 \/ IsSpace(At(t, i - 1)))}

\* One past the last byte of the field that starts at offset i.
FieldEnd(t, i) == MinOr({j \in i..(Len(t) - 1) : IsSpace(At(t, j))}, Len(t))

FieldsAt(t, starts) == [k \in 1..Len(starts) |-> Slice(t, starts[k], FieldEnd(t, starts[k]))]

\* strings.Fields
Fields(t) == FieldsAt(t, Ascending(FieldStarts(t)))

\* The cutset of the strings.Trim call, but for its backquote, which a TLA+
\* string cannot hold; no query of the model holds one.
Punctuation == {".", ",", ";", ":", "!", "?", "(", ")", "[", "]", "{", "}", "-", "\"", "'"}

\* A trim that takes at most one byte of the cutset from each end.
TrimOnce(w, cutset) ==
    Slice(w, IF At(w, 0) \in cutset THEN 1 ELSE 0,
             IF Len(w) > 1 /\ At(w, Len(w) - 1) \in cutset THEN Len(w) - 1 ELSE Len(w))

\* strings.Trim(w, cutset): from the first to the last byte outside the cutset.
Trim(w, cutset) ==
    Slice(w, MinOr({i \in 0..(Len(w) - 1) : At(w, i) \notin cutset}, Len(w)),
             MaxOr({i + 1 : i \in {j \in 0..(Len(w) - 1) : At(w, j) \notin cutset}}, Len(w)))

stopWords ==
    {<<"a">>, <<"a", "n">>, <<"t", "h", "e">>, <<"a", "n", "d">>,
     <<"o", "r">>, <<"b", "u", "t">>, <<"i", "s">>, <<"a", "r", "e">>,
     <<"w", "a", "s">>, <<"w", "e", "r", "e">>, <<"b", "e">>,
     <<"b", "e", "e", "n">>, <<"b", "e", "i", "n", "g">>,
     <<"h", "a", "v", "e">>, <<"h", "a", "s">>, <<"h", "a", "d">>,
     <<"d", "o">>, <<"d", "o", "e", "s">>, <<"d", "i", "d">>, <<"t", "o">>,
     <<"f", "r", "o", "m">>, <<"i", "n">>, <<"o", "u", "t">>, <<"o", "n">>,
     <<"o", "f", "f">>, <<"o", "v", "e", "r">>, <<"u", "n", "d", "e", "r">>,
     <<"a", "g", "a", "i", "n">>, <<"f", "u", "r", "t", "h", "e", "r">>,
     <<"t", "h", "e", "n">>, <<"o", "n", "c", "e">>, <<"h", "e", "r", "e">>,
     <<"t", "h", "e", "r", "e">>, <<"w", "h", "e", "n">>,
     <<"w", "h", "e", "r", "e">>, <<"w", "h", "y">>, <<"h", "o", "w">>,
     <<"a", "l", "l">>, <<"a", "n", "y">>, <<"b", "o", "t", "h">>,
     <<"e", "a", "c", "h">>, <<"f", "e", "w">>, <<"m", "o", "r", "e">>,
     <<"m", "o", "s", "t">>, <<"o", "t", "h", "e", "r">>,
     <<"s", "o", "m", "e">>, <<"s", "u", "c", "h">>, <<"n", "o">>,
     <<"n", "o", "r">>, <<"n", "o", "t">>, <<"o", "n", "l", "y">>,
     <<"o", "w", "n">>, <<"s", "a", "m", "e">>, <<"s", "o">>,
     <<"t", "h", "a", "n">>, <<"t", "o", "o">>, <<"v", "e", "r", "y">>,
     <<"c", "a", "n">>, <<"w", "i", "l", "l">>, <<"j", "u", "s", "t">>,
     <<"s", "h", "o", "u", "l", "d">>, <<"n", "o", "w">>}

\* The words the loop keeps: not empty, not a stop word, longer than one byte.
KeepWord(word) == word # EmptyStr /\ word \notin stopWords /\ Len(word) > 1

RECURSIVE KeywordsOf(_)
KeywordsOf(words) ==
    IF Len(words) = 0 THEN <<>>
    ELSE IF KeepWord(Trim(words[1], Punctuation))
         THEN <<Trim(words[1], Punctuation)>> \o KeywordsOf(Tail(words))
         ELSE KeywordsOf(Tail(words))

extractKeywords(query) == KeywordsOf(Fields(ToLower(query)))

(***************************************************************************)
(* globToRegex, and the match of the regular expressions it produces       *)
(***************************************************************************)
\* The bytes regexp.QuoteMeta escapes.
MetaChars == {"\\", ".", "+", "*", "?", "(", ")", "|", "[", "]", "{", "}", "^", "$"}

\* A conversion that escapes nothing.
Unquoted(t) == t

RECURSIVE QuoteMeta(_)
QuoteMeta(t) ==
    IF Len(t) = 0 THEN <<>>
    ELSE (IF t[1] \in MetaChars THEN <<"\\", t[1]>> ELSE <<t[1]>>) \o QuoteMeta(Tail(t))

\* strings.ReplaceAll(t, old, new) for a two-byte old: leftmost occurrences,
\* not overlapping.
RECURSIVE ReplaceAll(_, _, _)
ReplaceAll(t, old, new) ==
    IF Len(t) < 2 THEN t
    ELSE IF SubSeq(t, 1, 2) = old THEN new \o ReplaceAll(SubSeq(t, 3, Len(t)), old, new)
    ELSE <<t[1]>> \o ReplaceAll(Tail(t), old, new)

globToRegex(pattern) ==
    <<"^">> \o ReplaceAll(ReplaceAll(QuoteMeta(pattern), <<"\\", "*">>, <<".", "*">>),
                          <<"\\", "?">>, <<".">>)
            \o <<"$">>

\* The regular expression as a list of items: an escaped or plain byte, "."
\* (any byte but a line terminator), ".*", "^" and "$".
RECURSIVE RegexItems(_)
RegexItems(re) ==
    IF Len(re) = 0 THEN <<>>
    ELSE IF re[1] = "\\" /\ Len(re) >= 2
         THEN <<[k |-> "lit", c |-> re[2]]>> \o RegexItems(SubSeq(re, 3, Len(re)))
    ELSE IF re[1] = "." /\ Len(re) >= 2 /\ re[2] = "*"
         THEN <<[k |-> "star", c |-> "."]>> \o RegexItems(SubSeq(re, 3, Len(re)))
    ELSE IF re[1] = "." THEN <<[k |-> "any", c |-> "."]>> \o RegexItems(Tail(re))
    ELSE IF re[1] = "^" THEN <<[k |-> "bol", c |-> "^"]>> \o RegexItems(Tail(re))
    ELSE IF re[1] = "$" THEN <<[k |-> "eol", c |-> "$"]>> \o RegexItems(Tail(re))
    ELSE <<[k |-> "lit", c |-> re[1]]>> \o RegexItems(Tail(re))

IsLineEnd(c) == c \in {"\n", "\r"}

\* The items from item i on match s from offset j to its end.
RECURSIVE ItemsMatch(_, _, _, _)
ItemsMatch(items, i, s, j) ==
    IF i > Len(items) THEN j = Len(s)
    ELSE IF items[i].k = "bol" THEN j = 0 /\ ItemsMatch(items, i + 1, s, j)
    ELSE IF items[i].k = "eol" THEN j = Len(s) /\ ItemsMatch(items, i + 1, s, j)
    ELSE IF items[i].k = "star"
         THEN \E e \in j..Len(s) :
                 /\ \A x \in j..(e - 1) : ~IsLineEnd(At(s, x))
                 /\ ItemsMatch(items, i + 1, s, e)
    ELSE IF items[i].k = "any"
         THEN j < Len(s) /\ ~IsLineEnd(At(s, j)) /\ ItemsMatch(items, i + 1, s, j + 1)
    ELSE j < Len(s) /\ At(s, j) = items[i].c /\ ItemsMatch(items, i + 1, s, j + 1)

\* Cypher's s =~ re: the whole of s matches re.
RegexMatches(s, re) == ItemsMatch(RegexItems(re), 1, s, 0)


(***************************************************************************)
(* The ranking query of SearchCode and SearchCodeAdvanced.  A score is an  *)
(* integer number of hundredths: 10 is 0.1.  gds.similarity.cosine is the  *)
(* store's; its value for a Chunk and the query is cosine[id].             *)
(***************************************************************************)
SearchCodeThreshold == 10
EntityBoostValue == 10
SizeBoostValue == 5
SizePenaltyValue == 5
SmallContent == 500
LargeContent == 2000
MinKeywordLen == 3

entityBoost(row) ==
    IF row.entity_type \in {FunctionType, MethodType} THEN EntityBoostValue ELSE 0

sizeBoost(row) == IF Len(row.content) < SmallContent THEN SizeBoostValue ELSE 0

sizePenalty(row) == IF Len(row.content) > LargeContent THEN 0 - SizePenaltyValue ELSE 0

\* vectorScore + entityBoost + sizeBoost + sizePenalty
Score(row, vectorScore) == vectorScore + entityBoost(row) + sizeBoost(row) + sizePenalty(row)

\* A filter that drops the rows of the listed languages.
LanguageExcluded(row, languages) ==
    \A i \in 1..Len(languages) : languages[i] # row.language

\* WHERE c.language IN $languages, when languages is not empty
LanguageFilter(row, languages) ==
    Len(languages) > 0 => \E i \in 1..Len(languages) : languages[i] = row.language

\* A query without the path condition.
AnyPath(row, pathFilters) == TRUE

\* (c.file_path =~ $pathPattern0 OR ...), when pathFilters is not empty
PathFilter(row, pathFilters) ==
    Len(pathFilters) > 0 =>
        \E i \in 1..Len(pathFilters) : RegexMatches(row.file_path, globToRegex(pathFilters[i]))

\* The keywords the query uses: those of more than three bytes.
UsedKeywords(keywords) ==
    {keywords[i] : i \in {j \in 1..Len(keywords) : Len(keywords[j]) > MinKeywordLen}}

\* Cypher's CONTAINS
Contains(t, k) == \E i \in 0..(Len(t) - Len(k)) : Slice(t, i, i + Len(k)) = k

\* (c.content CONTAINS $keyword0 OR ...), when keywords are in use and one of
\* them is long enough
KeywordFilter(row, useKeywords, keywords) ==
    (useKeywords /\ Len(keywords) > 0 /\ UsedKeywords(keywords) # {}) =>
        \E k \in UsedKeywords(keywords) : Contains(row.content, k)

\* A query without the first threshold.
NoVectorThreshold(vectorScore, minScore) == TRUE

\* WHERE vectorScore > $minScore
VectorThreshold(vectorScore, minScore) == vectorScore > minScore

\* WHERE score > $minScore
ScoreThreshold(score, minScore) == score > minScore

Thresholds(row, vectorScore, minScore) ==
    /\ VectorThreshold(vectorScore, minScore)
    /\ ScoreThreshold(Score(row, vectorScore), minScore)

\* The Chunk ids the query of SearchCodeAdvanced keeps before ORDER BY.
AdvancedRows(st, cos, languages, pathFilters, minScore, useKeywords, keywords) ==
    {id \in DOMAIN st.chunks :
        /\ LanguageFilter(st.chunks[id], languages)
        /\ PathFilter(st.chunks[id], pathFilters)
        /\ KeywordFilter(st.chunks[id], useKeywords, keywords)
        /\ Thresholds(st.chunks[id], cos[id], minScore)}

\* The Chunk ids the query of SearchCode keeps before ORDER BY.
SearchCodeRows(st, cos) ==
    {id \in DOMAIN st.chunks :
        /\ cos[id] > SearchCodeThreshold
        /\ Score(st.chunks[id], cos[id]) > SearchCodeThreshold}

\* An order that puts the lower score first.
RankedAscending(a, b) == a <= b

\* ORDER BY score DESC: a row of score a may come before a row of score b.
RankedBefore(a, b) == a >= b

\* LIMIT $limit
LimitOf(ids, limit) == Min(limit, Cardinality(ids))

\* ORDER BY score DESC LIMIT $limit: the orders the store may return; rows of
\* equal score come in any order.
Rankings(st, cos, ids, limit) ==
    {s \in [1..LimitOf(ids, limit) -> ids] :
        /\ \A i, j \in 1..LimitOf(ids, limit) :
              i < j => /\ s[i] # s[j]
                       /\ RankedBefore(Score(st.chunks[s[i]], cos[s[i]]),
                                       Score(st.chunks[s[j]], cos[s[j]]))
        /\ \A id \in ids :
              (\A i \in 1..LimitOf(ids, limit) : s[i] # id) =>
                  \A i \in 1..LimitOf(ids, limit) :
                      RankedBefore(Score(st.chunks[s[i]], cos[s[i]]),
                                   Score(st.chunks[id], cos[id]))}

\* The CodeChunk built from a record of the result.
FoundChunk(id, row, score) ==
    [ID |-> id, Content |-> row.content, FilePath |-> row.file_path,
     StartLine |-> row.start_line, EndLine |-> row.end_line,
     EntityType |-> row.entity_type, Name |-> row.name,
     Signature |-> row.signature, Language |-> row.language, Score |-> score]

FoundChunks(st, cos, s) ==
    [i \in 1..Len(s) |-> FoundChunk(s[i], st.chunks[s[i]], Score(st.chunks[s[i]], cos[s[i]]))]

\* ran: the statements the call ran in its read transaction, in order.
Failed(err, ran) == [err |-> err, chunks |-> <<>>, ran |-> ran]

Found(cs, ran) == [err |-> "nil", chunks |-> cs, ran |-> ran]

\* A count check that never finds the store empty.
NeverEmpty(st) == FALSE

\* MATCH (c:Chunk) RETURN count(c): chunkCount == 0
CorpusEmpty(st) == DOMAIN st.chunks = {}

\* What a search returns once it has the ids its query keeps.  env is what
\* the embedding service and the store do during the call ("db_error": the
\* count statement fails); checks are the statements run before the ranking
\* query.
SearchReturns(st, cos, ids, limit, env, checks) ==
    IF env = "embed_error" THEN {Failed("failed to generate query embedding", <<>>)}
    ELSE IF env = "empty_embedding" THEN {Failed("received empty embedding for query", <<>>)}
    ELSE IF env = "db_error" THEN {Failed("search failed", <<"count">>)}
    ELSE IF CorpusEmpty(st) THEN {Found(<<>>, <<"count">>)}
    ELSE {Found(FoundChunks(st, cos, s), Append(checks, "rank")) :
             s \in Rankings(st, cos, ids, limit)}

SearchCodeReturns(st, cos, query, limit, env) ==
    SearchReturns(st, cos, SearchCodeRows(st, cos), limit, env, <<"count", "gds.list">>)

SearchCodeAdvancedReturns(st, cos, query, limit, langs, globs, minScore, useKw, env) ==
    SearchReturns(st, cos,
                  AdvancedRows(st, cos, langs, globs, minScore, useKw,
                               extractKeywords(query)),
                  limit, env, <<"count">>)

(***************************************************************************)
(* The search on its own: a store filled by ingest, then one search call   *)
(***************************************************************************)
MaxLimit == 3
Limits == {1, MaxLimit}
CosineValues == {10, 50}
MinScores == {10, 45}

PathJs == <<"/", "w", "/", "p", "/", "q", "/", "c", ".", "j", "s">>
GlobGo == <<"*", ".", "g", "o">>
GlobPy == <<"*", ".", "p", "y">>
JavaScriptLabel == <<"J", "a", "v", "a", "S", "c", "r", "i", "p", "t">>

QueryReturn == <<"h", "o", "w", " ", "t", "o", " ", "r", "e", "t", "u", "r", "n">>
QueryXxxx == <<"F", "i", "n", "d", " ", "x", "x", "x", "x", "?">>
QueryIsIt == <<"i", "s", " ", "i", "t">>
Queries == {QueryReturn, QueryXxxx, QueryIsIt}

LanguageLists == {<<>>, <<GoLabel>>, <<GoLabel, PythonLabel>>}
PathFilterLists == {<<>>, <<GlobGo>>, <<GlobPy>>, <<GlobGo, GlobPy>>}
SearchEnvs == {"ok", "embed_error", "empty_embedding", "db_error"}

\* The files the store may have been filled from.
CorpusTexts ==
    (PathGo :> JoinLines(<<LineHello, LineMethod>>))
    @@ (PathPy :> Repeat("x", LargeContent + 1))
    @@ (PathJs :> Repeat("y", SmallContent))

IngestOk == [read |-> TRUE, embed |-> "ok", fail |-> NoFail]

\* The store after the files of paths were ingested from the root /w/p.
RECURSIVE StoreOf(_)
StoreOf(paths) ==
    IF Len(paths) = 0 THEN EmptyStore
    ELSE processFile(StoreOf(Tail(paths)), DefaultConfig, CorpusTexts[paths[1]],
                     paths[1], ProjectDir, IngestOk).st

Corpora ==
    {StoreOf(ps) : ps \in {<<>>, <<PathGo>>, <<PathPy>>, <<PathJs>>, <<PathPy, PathGo>>,
                           <<PathJs, PathGo>>, <<PathJs, PathPy>>,
                           <<PathJs, PathPy, PathGo>>}}

SearchInit ==
    /\ ChunkParked
    /\ IngestIdle
    /\ MoreParked
    /\ config = DefaultConfig
    /\ store \in Corpora
    /\ cosine \in [DOMAIN store.chunks -> CosineValues]
    /\ request = NoRequest
    /\ results = NoResults
    /\ spc = "ready"

SearchCode ==
    /\ spc = "ready"
    /\ \E query \in Queries, limit \in Limits, env \in SearchEnvs :
          /\ request' = [op |-> "SearchCode", query |-> query, limit |-> limit,
                         languages |-> <<>>, pathFilters |-> <<>>,
                         minScore |-> SearchCodeThreshold, useKeywords |-> FALSE,
                         env |-> env]
          /\ results' \in SearchCodeReturns(store, cosine, query, limit, env)
    /\ spc' = "done"
    /\ UNCHANGED <<config, moreVars, chunkVars, ingestVars, cosine>>

SearchCodeAdvanced ==
    /\ spc = "ready"
    /\ \E query \in Queries, limit \in Limits, languages \in LanguageLists,
          pathFilters \in PathFilterLists, minScore \in MinScores,
          useKeywords \in BOOLEAN, env \in SearchEnvs :
          /\ request' = [op |-> "SearchCodeAdvanced", query |-> query, limit |-> limit,
                         languages |-> languages, pathFilters |-> pathFilters,
                         minScore |-> minScore, useKeywords |-> useKeywords,
                         env |-> env]
          /\ results' \in SearchCodeAdvancedReturns(store, cosine, query, limit, languages,
                                                   pathFilters, minScore, useKeywords, env)
    /\ spc' = "done"
    /\ UNCHANGED <<config, moreVars, chunkVars, ingestVars, cosine>>

SearchNext == SearchCode \/ SearchCodeAdvanced

SpecSearch == SearchInit /\ [][SearchNext]_vars

(***************************************************************************)
(* Claims about ingest (specification Spec)                                *)
(***************************************************************************)
\* The chunks of the last call's file for a given text of it.
ChunksOfCall(text) ==
    chunkFile(config, text, lastCall.path, projectPathOf(rootDir, lastCall.path),
              getLanguageFromExt(ToLower(Ext(lastCall.path))))

\* The last call stored a file whose previous successful ingest had text prev.
Reingested == lastCall.outcome = "ok" /\ lastCall.prev.has

\* C1: when a file's text is the same as at its last successful ingest, the
\* re-ingest yields the same chunk ids and hashes and storeChunks writes
\* (creates or updates) no Chunk row.
C1_UnchangedFileWritesNothing ==
    (Reingested /\ lastCall.prev.text = lastCall.text)
        => lastCall.writes = <<>>

SameRanges(old, new) ==
    /\ Len(old) = Len(new)
    /\ \A i \in 1..Len(new) :
          old[i].StartLine = new[i].StartLine /\ old[i].EndLine = new[i].EndLine

ChangedChunks(old, new) == {i \in 1..Len(new) : old[i].Content # new[i].Content}

OnlyThatChunkRewritten(old, new) ==
    (SameRanges(old, new) /\ Cardinality(ChangedChunks(old, new)) = 1)
        => \A k \in ChangedChunks(old, new) :
              /\ new[k].ID = old[k].ID
              /\ new[k].Hash # old[k].Hash
              /\ lastCall.writes = <<new[k].ID>>

\* C2: when a file is re-ingested with every chunk's line range as before and
\* the content of exactly one chunk changed, that chunk keeps its id, gets a
\* new hash, and it is the only Chunk row written.
C2_OnlyChangedChunkRewritten ==
    Reingested
        => OnlyThatChunkRewritten(ChunksOfCall(lastCall.prev.text),
                                  ChunksOfCall(lastCall.text))

\* C3: a processFile call whose store transaction failed leaves the store as
\* it was before the call: no Project, File or Chunk row or relationship of
\* that call is kept.
C3_AllOrNothing ==
    [][(idx' = idx + 1 /\ lastCall'.outcome = "store_error") => store' = store]_vars

\* A transaction failed after its function had changed something.
C3_Witness == lastCall.outcome = "store_error" /\ lastCall.dirty

Chunked == cpc = "chunked"

LinesOfContent == SplitLines(content)

ValidRange(c) == 1 <= c.StartLine /\ c.StartLine <= c.EndLine

Covered(n) ==
    \E i \in 1..Len(chunks) : chunks[i].StartLine <= n /\ n <= chunks[i].EndLine

\* C8: the chunks chunkFile returns have 1-based ranges with
\* 1 <= start_line <= end_line, and every line of the file lies in the range
\* of at least one chunk, Go files chunked structurally included.
C8_ChunksCoverFile ==
    Chunked =>
        /\ \A i \in 1..Len(chunks) : ValidRange(chunks[i])
        /\ \A n \in 1..Len(LinesOfContent) : Covered(n)

\* The text is a Go file with exactly one function declaration and no method.
OneFunction ==
    /\ language = GoLabel
    /\ Len(allMatches(content)) = 1
    /\ ~allMatches(content)[1].isMethod

\* C9 as stated: a Go file with exactly one function declaration yields one
\* chunk of entity_type "function" carrying the function's name and its
\* parameter list as signature.
C9_SingleFunctionChunk ==
    (Chunked /\ OneFunction) =>
        /\ Len(chunks) = 1
        /\ chunks[1].EntityType = FunctionType
        /\ chunks[1].Name = allMatches(content)[1].name
        /\ chunks[1].Signature = allMatches(content)[1].sig

Chunk_1_1 == <<"c", "h", "u", "n", "k", "_", "1", "_", "1">>

\* C9 amended: a Go file with exactly one function declaration has fewer than
\* two structural chunks, so chunkFile returns the size-based chunks, all of
\* entity_type "chunk" with an empty signature; the file holding exactly the
\* Hello function yields one chunk named chunk_1_1 on lines 1 to 1.
C9_SingleFunctionFallsBack ==
    (Chunked /\ OneFunction) =>
        /\ Len(chunks) >= 1
        /\ \A i \in 1..Len(chunks) :
              /\ chunks[i].EntityType = ChunkType
              /\ chunks[i].Signature = EmptyStr
              /\ chunks[i].Name = ChunkName(chunks[i].StartLine, chunks[i].EndLine)
        /\ content = LineHello =>
              /\ Len(chunks) = 1
              /\ chunks[1].Name = Chunk_1_1
              /\ chunks[1].StartLine = 1
              /\ chunks[1].EndLine = 1

\* The file holding exactly the Hello function was chunked as Go.
C9_Witness == Chunked /\ OneFunction /\ content = LineHello

CeilDiv(a, b) == (a + b - 1) \div b

\* C10: with the default configuration a non-Go file of B bytes, B above
\* maxChunkSize, is split into ceil(B / maxChunkSize) chunks, all of
\* entity_type "chunk".
C10_CeilChunkCount ==
    (Chunked /\ config = DefaultConfig /\ language # GoLabel
        /\ Len(content) > config.MaxChunkSize) =>
        /\ Len(chunks) = CeilDiv(Len(content), config.MaxChunkSize)
        /\ \A i \in 1..Len(chunks) : chunks[i].EntityType = ChunkType

(***************************************************************************)
(* Claims about the search (SpecSearch)                                    *)
(***************************************************************************)
\* The search call returned a list without error.
Searched == spc = "done" /\ results.err = "nil"

Returned == {results.chunks[i].ID : i \in 1..Len(results.chunks)}

\* C5: every row a search returns has an adjusted score above min_score (0.1
\* for SearchCode) and a raw vectorScore above min_score, so a row whose
\* vectorScore is at most min_score is dropped whatever its boosts.
C5_ReturnedAboveMinScore ==
    Searched =>
        \A i \in 1..Len(results.chunks) :
            /\ results.chunks[i].Score > request.minScore
            /\ cosine[results.chunks[i].ID] > request.minScore

NoFilters ==
    request.languages = <<>> /\ request.pathFilters = <<>> /\ ~request.useKeywords

\* An unfiltered search returned rows and left out a row whose vectorScore is
\* at most min_score although its boosts lift its score above min_score.
C5_Witness ==
    /\ Searched
    /\ NoFilters
    /\ Len(results.chunks) >= 1
    /\ Len(results.chunks) < request.limit
    /\ \E id \in DOMAIN store.chunks :
          /\ id \notin Returned
          /\ cosine[id] <= request.minScore
          /\ Score(store.chunks[id], cosine[id]) > request.minScore

IsFunctionOrMethod(c) == c.EntityType \in {FunctionType, MethodType}

\* The adjusted score in hundredths, from the chunk's fields.
AdjustedScore(c) ==
    cosine[c.ID] + (IF IsFunctionOrMethod(c) THEN 10 ELSE 0)
                 + (IF Len(c.Content) < 500 THEN 5 ELSE 0)
                 - (IF Len(c.Content) > 2000 THEN 5 ELSE 0)

\* Chunk a is a function under 500 bytes and chunk b a chunk of another kind
\* over 2000 bytes, both with vectorScore 0.5.
ExamplePair(a, b) ==
    /\ cosine[a.ID] = 50 /\ cosine[b.ID] = 50
    /\ a.EntityType = FunctionType /\ Len(a.Content) < 500
    /\ ~IsFunctionOrMethod(b) /\ Len(b.Content) > 2000

\* The rows the query of the call keeps.
KeptRows ==
    IF request.op = "SearchCode" THEN SearchCodeRows(store, cosine)
    ELSE AdvancedRows(store, cosine, request.languages, request.pathFilters,
                      request.minScore, request.useKeywords,
                      extractKeywords(request.query))

\* C6: the rows come in descending order of the adjusted score, which is
\* vectorScore + 0.1 for a function or method + 0.05 under 500 bytes - 0.05
\* over 2000 bytes; at most limit rows are returned and no row left out
\* outranks a returned one; with equal vectorScore 0.5 a small function
\* (0.65) comes before a large chunk of another kind (0.45).
C6_RankedByAdjustedScore ==
    Searched =>
        /\ Len(results.chunks) <= request.limit
        /\ \A i \in 1..Len(results.chunks) :
              results.chunks[i].Score = AdjustedScore(results.chunks[i])
        /\ \A i, j \in 1..Len(results.chunks) :
              i < j => results.chunks[i].Score >= results.chunks[j].Score
        /\ \A id \in KeptRows \ Returned :
              \A i \in 1..Len(results.chunks) :
                  results.chunks[i].Score >= Score(store.chunks[id], cosine[id])
        /\ \A i, j \in 1..Len(results.chunks) :
              ExamplePair(results.chunks[i], results.chunks[j]) =>
                  /\ results.chunks[i].Score = 65
                  /\ results.chunks[j].Score = 45
                  /\ i < j

\* A search returned three rows or more, the small function and the large
\* chunk of the example among them.
C6_Witness ==
    /\ Searched
    /\ Len(results.chunks) >= 3
    /\ \E i, j \in 1..Len(results.chunks) :
          ExamplePair(results.chunks[i], results.chunks[j])

\* The number of rows SearchCodeAdvanced returns for the call's corpus, query,
\* limit and keyword switch under other filters.
CountOf(languages, pathFilters, minScore) ==
    LimitOf(AdvancedRows(store, cosine, languages, pathFilters, minScore,
                         request.useKeywords, extractKeywords(request.query)),
            request.limit)

AdvancedDone == Searched /\ request.op = "SearchCodeAdvanced"

LanguagePool == {GoLabel, PythonLabel, JavaScriptLabel}
GlobPool == {GlobGo, GlobPy}

WithLanguage(l) ==
    CountOf(Append(request.languages, l), request.pathFilters, request.minScore)

WithGlob(g) ==
    CountOf(request.languages, Append(request.pathFilters, g), request.minScore)

RaisingMinScoreNeverIncreases ==
    \A m \in MinScores :
        m >= request.minScore =>
            CountOf(request.languages, request.pathFilters, m) <= Len(results.chunks)

\* C7 as stated: adding a language, adding a glob or raising min_score never
\* increases the number of rows returned for the same corpus and query.
C7_TighteningNeverIncreases ==
    AdvancedDone =>
        /\ \A l \in LanguagePool : WithLanguage(l) <= Len(results.chunks)
        /\ \A g \in GlobPool : WithGlob(g) <= Len(results.chunks)
        /\ RaisingMinScoreNeverIncreases

\* C7 amended: raising min_score never increases the number of rows returned;
\* adding a language or a glob to an empty list never increases it; adding
\* one to a list that is not empty never decreases it, and can increase it.
C7_FilterMonotonicity ==
    AdvancedDone =>
        /\ RaisingMinScoreNeverIncreases
        /\ \A l \in LanguagePool :
              IF request.languages = <<>> THEN WithLanguage(l) <= Len(results.chunks)
              ELSE WithLanguage(l) >= Len(results.chunks)
        /\ \A g \in GlobPool :
              IF request.pathFilters = <<>> THEN WithGlob(g) <= Len(results.chunks)
              ELSE WithGlob(g) >= Len(results.chunks)

\* A search with one language and one glob returned rows, and returns more
\* with a second language and a second glob.
C7_Witness ==
    /\ AdvancedDone
    /\ Len(request.languages) = 1
    /\ Len(request.pathFilters) = 1
    /\ Len(results.chunks) >= 1
    /\ \E l \in LanguagePool, g \in GlobPool :
          CountOf(Append(request.languages, l), Append(request.pathFilters, g),
                  request.minScore) > Len(results.chunks)

\* The chunks are those of the size-based chunker.
SizeBased == Chunked /\ \A i \in 1..Len(chunks) : chunks[i].EntityType = ChunkType

LinesOfChunk(i) == SplitLines(chunks[i].Content)

\* The leading lines chunk i repeats from its predecessor: the last
\* chunkOverlap lines of it, or all of it when it is shorter.
Repeated(i) ==
    IF i = 1 THEN 0 ELSE Min(config.ChunkOverlap, Len(LinesOfChunk(i - 1)))

\* The lines of chunk i after the repeated ones.
FreshLines(i) == SubSeq(LinesOfChunk(i), Repeated(i) + 1, Len(LinesOfChunk(i)))

RECURSIVE FreshUpTo(_)
FreshUpTo(i) == IF i = 0 THEN <<>> ELSE FreshUpTo(i - 1) \o FreshLines(i)

\* C11: the chunks of the size-based chunker, each but the first without the
\* leading lines it repeats from its predecessor, concatenate to the lines of
\* the file, in order and each once.
C11_SizeChunksCoverOnce ==
    SizeBased => FreshUpTo(Len(chunks)) = LinesOfContent

\* A text was split into three chunks or more that repeat lines.
C11_Witness ==
    /\ SizeBased
    /\ Len(chunks) >= 3
    /\ config.ChunkOverlap >= 1
    /\ \E i \in 2..Len(chunks) : Repeated(i) < Len(LinesOfChunk(i - 1))

(***************************************************************************)
(* The walk on its own: a directory tree and a root are drawn, then        *)
(* findCodeFiles runs.                                                     *)
(***************************************************************************)
MaxWalkFiles == 3      \* files of a drawn tree

\* The directories of every drawn tree.
WalkDirs ==
    {<<"/","w">>,
     <<"/","w","/","s","r","c">>,
     <<"/","w","/",".","x">>,
     <<"/","w","/","v","e","n","d","o","r">>,
     <<"/","w","/","s","r","c","/","v","e","n","d","o","r">>,
     <<"/","w","/","x","e","n","v">>,
     <<"/","w","/","x","e","n","v","/","l","i","b">>,
     <<"/","w","/","x","e","n","v","/","l","i","b","/","p","y","t","h","o","n","3">>,
     <<"/","w","/","x","e","n","v","/","l","i","b","/","p","y","t","h","o","n","3","/","m","y","-","s","i","t","e","-","p","a","c","k","a","g","e","s">>,
     <<"/","w","/","d",".","g","o">>,
     <<"/","t","m","p">>,
     <<"/","t","m","p","/","w">>}

PathPlain == <<"/","w","/","a",".","g","o">>
PathHiddenFile == <<"/","w","/",".","h",".","g","o">>
PathMinJs == <<"/","w","/","a",".","m","i","n",".","j","s">>
PathText == <<"/","w","/","a",".","t","x","t">>
PathUpperExt == <<"/","w","/","A",".","G","O">>
PathBig == <<"/","w","/","b","i","g",".","g","o">>
PathAtLimit == <<"/","w","/","m","a","x",".","g","o">>
PathInHiddenDir == <<"/","w","/",".","x","/","a",".","g","o">>
PathInVendor == <<"/","w","/","v","e","n","d","o","r","/","a",".","g","o">>
PathInSrc == <<"/","w","/","s","r","c","/","b",".","p","y">>
PathInSrcVendor == <<"/","w","/","s","r","c","/","v","e","n","d","o","r","/","b",".","g","o">>
PathInVenv == <<"/","w","/","x","e","n","v","/","l","i","b","/","p","y","t","h","o","n","3","/","m","y","-","s","i","t","e","-","p","a","c","k","a","g","e","s","/","a",".","p","y">>
PathVenvName == <<"/","w","/","x","e","n","v","/","l","i","b","/","p","y","t","h","o","n","3","/","s","i","t","e","-","p","a","c","k","a","g","e","s",".","p","y">>
PathUnderTmp == <<"/","t","m","p","/","w","/","a",".","g","o">>
PathInCodeDir == <<"/","w","/","d",".","g","o","/","c",".","g","o">>

WalkFiles ==
    {PathPlain, PathHiddenFile, PathMinJs, PathText, PathUpperExt,
     PathBig, PathAtLimit, PathInHiddenDir, PathInVendor, PathInSrc,
     PathInSrcVendor, PathInVenv, PathVenvName, PathUnderTmp, PathInCodeDir}

FileSize(p) ==
    IF p = PathBig THEN maxFileSize + 1 ELSE IF p = PathAtLimit THEN maxFileSize ELSE 10

WalkRoots == {<<"/","w">>, <<"/","w","/","s","r","c">>, <<"/","t","m","p","/","w">>}

\* The entries on which Lstat may fail: none, a directory, a file.
LstatFailures == {EmptyStr, <<"/","w","/","s","r","c">>, PathPlain}

TreeWith(F, failing) ==
    [p \in WalkDirs \cup F |->
        [dir |-> p \in WalkDirs,
         size |-> IF p \in WalkDirs THEN 0 ELSE FileSize(p),
         err |-> p = failing]]

WalkInit ==
    /\ ChunkParked
    /\ IngestParked
    /\ SearchParked
    /\ CallParked
    /\ HttpParked
    /\ MainParked
    /\ config = DefaultConfig
    /\ tree \in {TreeWith(F, e) : F \in {G \in SUBSET WalkFiles : Cardinality(G) <= MaxWalkFiles},
                                  e \in LstatFailures}
    /\ walkRoot \in WalkRoots
    /\ walked = <<>>
    /\ wpc = "ready"

FindCodeFiles ==
    /\ wpc = "ready"
    /\ walked' = WalkTree(tree, walkRoot)
    /\ wpc' = "walked"
    /\ UNCHANGED <<config, chunkVars, ingestVars, searchVars, callVars, httpVars, mainVars, tree, walkRoot>>

WalkNext == FindCodeFiles

SpecWalk == WalkInit /\ [][WalkNext]_vars

(***************************************************************************)
(* The walker's inclusion policy                                           *)
(***************************************************************************)
Walked == wpc = "walked"

Listed(p) == \E i \in 1..Len(walked) : walked[i] = p

\* The directories from the root down to the one that holds p.
DirsFromRoot(p) == {d \in DirsAbove(p) : d = walkRoot \/ Under(walkRoot, d)}

\* Lstat fails neither on p nor on a directory from the root down to it.
Readable(p) == ~tree[p].err /\ \A d \in DirsFromRoot(p) : ~tree[d].err

\* The names of the directories above p, at any depth.
AncestorNames(p) == {Base(d) : d \in DirsAbove(p)}

\* The conditions on the entry itself: a file with an included extension, a
\* name that is not hidden and matches no excluded pattern, of at most 1 MiB.
FileConditions(p) ==
    /\ ~tree[p].dir
    /\ ToLower(Ext(p)) \in extensions
    /\ Base(p)[1] # "."
    /\ tree[p].size <= 1024 * 1024
    /\ \A i \in 1..Len(ignoreFilePatterns) : ~Match(ignoreFilePatterns[i], Base(p))

PairIn(t) ==
    /\ StringsContains(t, <<"v","e","n","v","/","l","i","b","/","p","y","t","h","o","n">>) \/ StringsContains(t, <<"e","n","v","/","l","i","b","/","p","y","t","h","o","n">>)
    /\ StringsContains(t, <<"s","i","t","e","-","p","a","c","k","a","g","e","s">>)

\* The conditions as listed: with the pair of substrings sought in the path
\* of the entry, and nothing said of hidden directories.
ListedConditions(p) ==
    /\ FileConditions(p)
    /\ AncestorNames(p) \cap ignoreDirs = {}
    /\ ~PairIn(p)

\* The conditions with the pair sought in the path of the entry's directory
\* and with no hidden directory from the root down to the entry.
WalkerConditions(p) ==
    /\ FileConditions(p)
    /\ AncestorNames(p) \cap ignoreDirs = {}
    /\ ~PairIn(Dir(p))
    /\ \A d \in DirsFromRoot(p) : ~(Base(d)[1] = "." /\ Base(d) \notin {<<".">>, <<".", ".">>})

\* C12 as stated: findCodeFiles returns a readable path under the root if and
\* only if it is a file, its lowercased extension is included, its name is
\* not hidden, its size is at most 1 MiB, its name matches no excluded
\* pattern, no ancestor directory name is excluded, and the path does not
\* contain both venv/lib/python (or env/lib/python) and site-packages.
C12_IncludedIffListed ==
    Walked => \A p \in DOMAIN tree :
                  Under(walkRoot, p) /\ Readable(p) => (Listed(p) <=> ListedConditions(p))

\* C12, amended: findCodeFiles returns a readable path under the root if and
\* only if the conditions on the file hold, no ancestor directory name is
\* excluded, no directory from the root down to the file is hidden, and the
\* path of the file's directory does not contain both venv/lib/python (or
\* env/lib/python) and site-packages; and it returns nothing else.
C12_IncludedIffWalked ==
    Walked =>
        /\ \A p \in DOMAIN tree :
               Under(walkRoot, p) /\ Readable(p) => (Listed(p) <=> WalkerConditions(p))
        /\ \A i \in 1..Len(walked) :
               walked[i] \in DOMAIN tree /\ Under(walkRoot, walked[i]) /\ Readable(walked[i])

\* A walk that returned two files and left out a file of a hidden directory
\* that meets every listed condition.
C12_Witness ==
    /\ Walked
    /\ Len(walked) >= 2
    /\ PathInHiddenDir \in DOMAIN tree
    /\ Readable(PathInHiddenDir)
    /\ ListedConditions(PathInHiddenDir)
    /\ ~Listed(PathInHiddenDir)

(***************************************************************************)
(* The File nodes and their projects                                       *)
(***************************************************************************)
ProjectsOf(f) == {b[2] : b \in {x \in store.belongsTo : x[1] = f}}

\* C13: after any sequence of ingest runs, over the same files with
\* different root directories too, every File node has exactly one
\* BELONGS_TO relationship, to exactly one Project.
C13_OneProjectPerFile ==
    \A f \in DOMAIN store.files :
        /\ Cardinality({x \in store.belongsTo : x[1] = f}) = 1
        /\ Cardinality(ProjectsOf(f)) = 1
        /\ ProjectsOf(f) \subseteq DOMAIN store.projects

(***************************************************************************)
(* processFile against an embedding service that answers as it likes: one  *)
(* file is on disk, and processFile is called on it up to MaxCalls times.  *)
(***************************************************************************)
MaxCalls == 2          \* processFile calls

AnswerKinds == {"ok", "error", "fewer", "more", "short", "status"}

EmbedEnvs == {[read |-> TRUE, embed |-> k, fail |-> NoFail] : k \in AnswerKinds}

\* The texts of the file: those of the ingest runs and those given to the
\* chunker, the empty text among them.
EmbedTexts == IngestTexts(PathGo) \cup Texts(MaxIngestLines)

EmbedInit ==
    /\ ChunkParked
    /\ SearchParked
    /\ MoreParked
    /\ config \in Configs
    /\ \E p \in {PathGo, PathPy} :
          /\ fs \in [{p} -> EmbedTexts]
          /\ ingested = [q \in {p} |-> NoText]
    /\ store = EmptyStore
    /\ pc = "idle"
    /\ rootDir = RootW
    /\ files = <<>>
    /\ idx = 0
    /\ processed = <<>>
    /\ outcomes = <<>>
    /\ returned = "none"
    /\ lastCall = NoCall
    /\ runs = 0
    /\ edits = 0

\* processFile is called on the file; after a panic the program is gone.
ProcessFile ==
    /\ Len(processed) < MaxCalls
    /\ \A i \in 1..Len(outcomes) : outcomes[i] # "panic"
    /\ \E p \in DOMAIN fs, env \in EmbedEnvs :
          Processed(p, processFile(store, config, fs[p], p, rootDir, env))
    /\ UNCHANGED <<config, moreVars, chunkVars, searchVars, fs, rootDir, files, runs, edits>>

EmbedNext == ProcessFile

SpecEmbed == EmbedInit /\ [][EmbedNext]_vars

\* The length of the vectors of the model.
Dimension == Len(EmbeddingOf(EmptyStr))

\* C14: whatever the embedding service answers, either processFile fails or
\* every Chunk row it wrote carries an embedding of the model's dimension
\* (the embedding step handed one vector to each chunk).
C14_RowsCarryFullEmbeddings ==
    lastCall.outcome = "ok" =>
        \A id \in DOMAIN store.chunks : Len(store.chunks[id].embedding) = Dimension

(***************************************************************************)
(* globToRegex on its own: a glob and a path are drawn, the glob is        *)
(* converted and the path matched against the regular expression.          *)
(***************************************************************************)
MaxPathLen == 3        \* bytes of a drawn path

GlobFooGo == <<"f", "o", "o", "*", ".", "g", "o">>
GlobS == <<"*", "s", "*">>
GlobOne == <<"a", "?">>
GlobDot == <<"a", ".", "s">>

PathFoobar == <<"f", "o", "o", "b", "a", "r", ".", "g", "o">>
PathFooBar == <<"f", "o", "o", "/", "b", "a", "r", ".", "g", "o">>

Globs == {GlobFooGo, GlobS, GlobOne, GlobDot}

PathBytes == {"s", "a", "/", "\n"}

GlobPaths ==
    {PathFoobar, PathFooBar} \cup UNION {[1..n -> PathBytes] : n \in 0..MaxPathLen}

GlobInit ==
    /\ ChunkParked
    /\ IngestParked
    /\ SearchParked
    /\ WalkParked
    /\ HttpParked
    /\ MainParked
    /\ config = DefaultConfig
    /\ input \in [glob : Globs, path : GlobPaths]
    /\ output = NoValue
    /\ opc = "ready"

\* (c.file_path =~ $pathPattern) with the pattern globToRegex made.
GlobToRegex ==
    /\ opc = "ready"
    /\ output' = [regex |-> globToRegex(input.glob),
                  accepted |-> RegexMatches(input.path, globToRegex(input.glob))]
    /\ opc' = "done"
    /\ UNCHANGED <<config, chunkVars, ingestVars, searchVars, walkVars, httpVars, mainVars, input>>

GlobNext == GlobToRegex

SpecGlob == GlobInit /\ [][GlobNext]_vars

Converted == opc = "done" /\ "glob" \in DOMAIN input

HasS(path) == \E i \in 1..Len(path) : path[i] = "s"

HasLineEnd(path) == \E i \in 1..Len(path) : path[i] \in {"\n", "\r"}

\* C15 as stated: the regular expression of foo*.go accepts foobar.go and
\* rejects foo/bar.go, and that of *s* accepts exactly the paths that
\* contain s.
C15_GlobStopsAtSeparator ==
    Converted =>
        /\ input.glob = GlobFooGo /\ input.path = PathFoobar => output.accepted
        /\ input.glob = GlobFooGo /\ input.path = PathFooBar => ~output.accepted
        /\ input.glob = GlobS => (output.accepted <=> HasS(input.path))

\* C15, amended: the regular expression of foo*.go accepts foobar.go and
\* foo/bar.go alike, and that of *s* accepts exactly the paths that contain
\* s and no line terminator.
C15_GlobCrossesSeparator ==
    Converted =>
        /\ input.glob = GlobFooGo /\ input.path \in {PathFoobar, PathFooBar} => output.accepted
        /\ input.glob = GlobS =>
              (output.accepted <=> HasS(input.path) /\ ~HasLineEnd(input.path))

\* foo*.go was converted and foo/bar.go matched against it.
C15_Witness ==
    /\ Converted
    /\ input.glob = GlobFooGo
    /\ input.path = PathFooBar
    /\ output.regex = <<"^", "f", "o", "o", ".", "*", "\\", ".", "g", "o", "$">>
    /\ output.accepted

(***************************************************************************)
(* The search on an empty corpus and with no query embedding               *)
(***************************************************************************)
SearchDone == spc = "done"

\* C16: with zero Chunk nodes and a query embedding obtained, SearchCode and
\* SearchCodeAdvanced return an empty list without error and without running
\* the ranking query; when the query embedding is empty or missing, the
\* search fails with an error before the store is read.
C16_EmptyCorpusAndNoEmbedding ==
    SearchDone =>
        /\ request.env = "ok" /\ DOMAIN store.chunks = {} =>
              /\ results.err = "nil"
              /\ results.chunks = <<>>
              /\ \A i \in 1..Len(results.ran) : results.ran[i] # "rank"
        /\ request.env \in {"embed_error", "empty_embedding"} =>
              /\ results.err \notin {"nil", "none"}
              /\ results.ran = <<>>

\* SearchCodeAdvanced has returned from an empty store after its count check.
C16_Witness ==
    /\ SearchDone
    /\ request.op = "SearchCodeAdvanced"
    /\ request.env = "ok"
    /\ DOMAIN store.chunks = {}
    /\ results.ran = <<"count">>

(***************************************************************************)
(* processQuery: the language and path filters it reads from the query     *)
(***************************************************************************)
\* languageKeywords: the pairs of a keyword and its language.
languageKeywords ==
    {<<<<"g","o","l","a","n","g">>, <<"G","o">>>>,
     <<<<"g","o"," ","c","o","d","e">>, <<"G","o">>>>,
     <<<<"p","y","t","h","o","n">>, <<"P","y","t","h","o","n">>>>,
     <<<<"p","y">>, <<"P","y","t","h","o","n">>>>,
     <<<<"j","a","v","a","s","c","r","i","p","t">>, <<"J","a","v","a","S","c","r","i","p","t">>>>,
     <<<<"j","s">>, <<"J","a","v","a","S","c","r","i","p","t">>>>,
     <<<<"t","y","p","e","s","c","r","i","p","t">>, <<"T","y","p","e","S","c","r","i","p","t">>>>,
     <<<<"t","s">>, <<"T","y","p","e","S","c","r","i","p","t">>>>,
     <<<<"j","a","v","a">>, <<"J","a","v","a">>>>,
     <<<<"c","#">>, <<"C","#">>>>,
     <<<<"c","s","h","a","r","p">>, <<"C","#">>>>,
     <<<<"c","+","+">>, <<"C","+","+">>>>,
     <<<<"c","p","p">>, <<"C","+","+">>>>,
     <<<<"r","u","b","y">>, <<"R","u","b","y">>>>,
     <<<<"r","u","s","t">>, <<"R","u","s","t">>>>,
     <<<<"p","h","p">>, <<"P","H","P">>>>,
     <<<<"s","w","i","f","t">>, <<"S","w","i","f","t">>>>,
     <<<<"k","o","t","l","i","n">>, <<"K","o","t","l","i","n">>>>,
     <<<<"s","c","a","l","a">>, <<"S","c","a","l","a">>>>,
     <<<<"s","h","e","l","l">>, <<"S","h","e","l","l">>>>,
     <<<<"b","a","s","h">>, <<"S","h","e","l","l">>>>,
     <<<<"s","q","l">>, <<"S","Q","L">>>>}

\* The entries whose keyword the lowercased query contains.
Hits(queryLower) == {e \in languageKeywords : StringsContains(queryLower, e[1])}

\* The orders in which a range over a map may visit the entries S.
RECURSIVE Orders(_)
Orders(S) ==
    IF S = {} THEN {<<>>} ELSE UNION {{<<x>> \o o : o \in Orders(S \ {x})} : x \in S}

\* The lists the loop over languageKeywords may build: one language appended
\* for each entry that hits, in the order of the range.
LanguagesOf(query) ==
    {[i \in 1..Len(o) |-> o[i][2]] : o \in Orders(Hits(ToLower(query)))}

pathPatterns ==
    <<<<"i","n"," ","d","i","r","e","c","t","o","r","y">>,
      <<"i","n"," ","d","i","r">>,
      <<"i","n"," ","f","o","l","d","e","r">>,
      <<"i","n"," ","p","a","t","h">>,
      <<"f","r","o","m"," ","d","i","r","e","c","t","o","r","y">>,
      <<"f","r","o","m"," ","d","i","r">>,
      <<"f","r","o","m"," ","f","o","l","d","e","r">>,
      <<"f","r","o","m"," ","p","a","t","h">>>>

\* strings.Index
Index(t, k) == MinOr({i \in 0..(Len(t) - Len(k)) : Slice(t, i, i + Len(k)) = k}, -1)

\* strings.IndexAny
IndexAny(t, chars) == MinOr({i \in 0..(Len(t) - 1) : t[i + 1] \in chars}, -1)

\* The path in pathText, which ends at pathEnd (-1: at the end of the text).
PathIn(pathText, pathEnd) ==
    Trim(Slice(pathText, 0, IF pathEnd = -1 THEN Len(pathText) ELSE pathEnd),
         {" ", "\t", "\"", "'"})

\* The filter appended for a path: none for the empty path, else the path,
\* between wildcards when it holds none.
FilterOf(path) ==
    IF path = EmptyStr THEN <<>>
    ELSE IF StringsContains(path, <<"*">>) THEN <<path>>
    ELSE <<<<"*">> \o path \o <<"*">>>>

\* The filter appended for a pattern found at offset at of the lowercased
\* query (-1: not found).
PatternFilter(query, at, pathStart) ==
    IF at = -1 \/ ~(pathStart < Len(query)) THEN <<>>
    ELSE FilterOf(PathIn(Slice(query, pathStart, Len(query)),
                         IndexAny(Slice(query, pathStart, Len(query)),
                                  {".", ",", ":", ";", "!", "?"})))

RECURSIVE PathFiltersFrom(_, _)
PathFiltersFrom(query, k) ==
    IF k > Len(pathPatterns) THEN <<>>
    ELSE PatternFilter(query, Index(ToLower(query), pathPatterns[k]),
                       Index(ToLower(query), pathPatterns[k]) + Len(pathPatterns[k]))
         \o PathFiltersFrom(query, k + 1)

PathFiltersOf(query) == PathFiltersFrom(query, 1)

\* What processQuery and the search it calls read from the query: the
\* languages, the path filters and the keywords.
Analyses(query) ==
    {[languages |-> ls, pathFilters |-> PathFiltersOf(query),
      keywords |-> extractKeywords(query)] : ls \in LanguagesOf(query)}

(***************************************************************************)
(* The analysis on its own: a query is drawn and analysed.                 *)
(***************************************************************************)
MaxPhrases == 2        \* phrases of a drawn query

PhrasePython == <<"p","y","t","h","o","n">>
PhrasePy == <<"p","y">>
PhraseJs == <<"J","S"," ","f","i","l","e","s">>
PhraseGoCode == <<"g","o"," ","c","o","d","e">>
PhraseInDir == <<"i","n"," ","d","i","r"," ","s","r","c">>
PhraseInDirectory == <<"i","n"," ","d","i","r","e","c","t","o","r","y"," ","\"","l","i","b","\"",".">>
PhraseFind == <<"F","i","n","d">>
PhraseParens == <<"(","(","a","b",")",")">>
PhraseThe == <<"t","h","e"," ","x">>

Phrases ==
    {PhrasePython, PhrasePy, PhraseJs, PhraseGoCode, PhraseInDir,
     PhraseInDirectory, PhraseFind, PhraseParens, PhraseThe}

\* strings.Join(parts, " ")
RECURSIVE JoinSpaces(_)
JoinSpaces(parts) ==
    IF Len(parts) = 0 THEN <<>>
    ELSE IF Len(parts) = 1 THEN parts[1]
    ELSE parts[1] \o <<" ">> \o JoinSpaces(Tail(parts))

AnalyzedQueries == UNION {{JoinSpaces(ps) : ps \in [1..n -> Phrases]} : n \in 1..MaxPhrases}

AnalyzeInit ==
    /\ ChunkParked
    /\ IngestParked
    /\ SearchParked
    /\ WalkParked
    /\ HttpParked
    /\ MainParked
    /\ config = DefaultConfig
    /\ input \in [query : AnalyzedQueries]
    /\ output = NoValue
    /\ opc = "ready"

Analyze ==
    /\ opc = "ready"
    /\ output' \in Analyses(input.query)
    /\ opc' = "done"
    /\ UNCHANGED <<config, chunkVars, ingestVars, searchVars, walkVars, httpVars, mainVars, input>>

AnalyzeNext == Analyze

SpecAnalyze == AnalyzeInit /\ [][AnalyzeNext]_vars

(***************************************************************************)
(* The analysis of a query                                                 *)
(***************************************************************************)
Analyzed == opc = "done" /\ "query" \in DOMAIN input

\* The canonical languages of the table.
Canonical == {e[2] : e \in languageKeywords}

TimesIn(x, s) == Cardinality({i \in 1..Len(s) : s[i] = x})

\* The lowercased query contains a keyword the table maps to the language.
KeywordOf(lang, query) ==
    \E e \in languageKeywords : e[2] = lang /\ StringsContains(ToLower(query), e[1])

\* C18: the detected list contains a canonical language if and only if the
\* lowercased query contains a keyword of the table mapped to it, and it
\* contains each language at most once, also when several keywords of the
\* language match.
C18_LanguagesDetectedOnce ==
    Analyzed =>
        /\ \A i \in 1..Len(output.languages) : output.languages[i] \in Canonical
        /\ \A lang \in Canonical :
              /\ TimesIn(lang, output.languages) >= 1 <=> KeywordOf(lang, input.query)
              /\ TimesIn(lang, output.languages) <= 1

\* The text made of the forms an analysis emitted: the language labels, the
\* path globs and the keywords, joined by spaces.
Emitted(a) == JoinSpaces(a.languages \o a.pathFilters \o a.keywords)

\* C19 as stated: the analysis of the text made of the emitted forms of an
\* analysis is that analysis again, and extractKeywords of the space-joined
\* keywords returns the same keywords.
C19_AnalyzeIdempotent ==
    Analyzed =>
        /\ output \in Analyses(Emitted(output))
        /\ extractKeywords(JoinSpaces(output.keywords)) = output.keywords

\* C19, amended: extractKeywords of the space-joined keywords of a query
\* returns the same keywords.
C19_KeywordsIdempotent ==
    Analyzed => extractKeywords(JoinSpaces(output.keywords)) = output.keywords

\* A query with a path filter and trimmed keywords was analysed, and the
\* analysis of its emitted forms is another one.
C19_Witness ==
    /\ Analyzed
    /\ output.pathFilters # <<>>
    /\ \E i \in 1..Len(output.keywords) : output.keywords[i] = <<"a", "b">>
    /\ output \notin Analyses(Emitted(output))

(***************************************************************************)
(* QueryLLM, and processQuery from its search on                           *)
(***************************************************************************)
QueryLLMLimit == 5

\* One snippet of the prompt: SNIPPET i (FilePath, EntityType), the fence
\* with the lowercased language, the content.
Snippet(c) ==
    [FilePath |-> c.FilePath, EntityType |-> c.EntityType,
     Language |-> ToLower(c.Language), Content |-> c.Content]

\* The prompt: the snippets in order, then the question.
PromptOf(cs, query) == [snippets |-> [i \in 1..Len(cs) |-> Snippet(cs[i])], question |-> query]

\* A retrieval with the filters processQuery read from the query.
FilteredRetrieval(st, cos, query, env) ==
    UNION {SearchCodeAdvancedReturns(st, cos, query, QueryLLMLimit, ls, PathFiltersOf(query),
                                     SearchCodeThreshold, TRUE, env) : ls \in LanguagesOf(query)}

\* QueryLLM's retrieval: r.SearchCode(query, 5)
Retrieved(st, cos, query, env) == SearchCodeReturns(st, cos, query, QueryLLMLimit, env)

\* What QueryLLM returns for the retrieval r; llm is what the completion
\* server does.
AnswerOf(r, query, llm) ==
    IF r.err # "nil"
    THEN [err |-> "failed to search for relevant chunks", prompt |-> NoValue, text |-> EmptyStr]
    ELSE IF llm = "error"
    THEN [err |-> "llm", prompt |-> PromptOf(r.chunks, query), text |-> EmptyStr]
    ELSE [err |-> "nil", prompt |-> PromptOf(r.chunks, query), text |-> <<"t", "e", "x", "t">>]

QueryLLMReturns(st, cos, query, env, llm) ==
    {AnswerOf(r, query, llm) : r \in Retrieved(st, cos, query, env)}

\* processQuery after its search returned shown: it gives up on an error,
\* else it displays the rows and calls QueryLLM.
AfterSearch(shown, answers) ==
    IF shown.err # "nil"
    THEN {[err |-> shown.err, chunks |-> <<>>, ran |-> shown.ran, llm |-> NoValue]}
    ELSE {[err |-> "nil", chunks |-> shown.chunks, ran |-> shown.ran, llm |-> a] : a \in answers}

processQueryReturns(st, cos, query, ls, env, envLLM, llm) ==
    UNION {AfterSearch(shown, QueryLLMReturns(st, cos, query, envLLM, llm)) :
              shown \in SearchCodeAdvancedReturns(st, cos, query, QueryLLMLimit, ls,
                                                  PathFiltersOf(query), SearchCodeThreshold,
                                                  TRUE, env)}

QueryPythonDir == <<"p", "y", "t", "h", "o", "n", " ", "c", "o", "d", "e", " ", "i", "n", " ", "d", "i", "r", " ", "q">>

CliQueries == {QueryReturn, QueryPythonDir}

processQuery ==
    /\ spc = "ready"
    /\ \E query \in CliQueries, env \in SearchEnvs, envLLM \in {"ok", "embed_error"},
          llm \in {"ok", "error"} :
          \E ls \in LanguagesOf(query) :
             /\ request' = [op |-> "processQuery", query |-> query, limit |-> QueryLLMLimit,
                            languages |-> ls, pathFilters |-> PathFiltersOf(query),
                            minScore |-> SearchCodeThreshold, useKeywords |-> TRUE,
                            env |-> env]
             /\ results' \in processQueryReturns(store, cosine, query, ls, env, envLLM, llm)
    /\ spc' = "done"
    /\ UNCHANGED <<config, moreVars, chunkVars, ingestVars, cosine>>

QueryNext == processQuery

SpecQuery == SearchInit /\ [][QueryNext]_vars

\* The rows of the returns R, without the statements that were run.
RowsOf(R) == {[err |-> r.err, chunks |-> r.chunks] : r \in R}

\* processQuery has displayed its rows and QueryLLM has built its prompt.
Prompted == spc = "done" /\ results.err = "nil" /\ results.llm.err # "failed to search for relevant chunks"

ShownSnippets == [i \in 1..Len(results.chunks) |-> Snippet(results.chunks[i])]

\* C17: for every store and query, SearchCode(query, 5) returns the same
\* ordered rows as SearchCodeAdvanced(query, 5, [], [], 0.1, false), and the
\* snippets of QueryLLM's prompt are those rows, whatever rows processQuery
\* obtained with the filters of the analysis.
C17_PromptFromSimpleSearch ==
    /\ \A query \in Queries \cup CliQueries, env \in SearchEnvs :
          RowsOf(SearchCodeReturns(store, cosine, query, 5, env))
              = RowsOf(SearchCodeAdvancedReturns(store, cosine, query, 5, <<>>, <<>>, 10,
                                                 FALSE, env))
    /\ Prompted =>
          \E r \in SearchCodeAdvancedReturns(store, cosine, request.query, 5, <<>>, <<>>, 10,
                                             FALSE, "ok") :
             results.llm.prompt = PromptOf(r.chunks, request.query)

\* processQuery displayed fewer rows, filtered by a language and a path, than
\* the prompt holds snippets.
C17_Witness ==
    /\ Prompted
    /\ request.languages # <<>>
    /\ request.pathFilters # <<>>
    /\ Len(results.llm.prompt.snippets) >= 2
    /\ Len(results.chunks) < Len(results.llm.prompt.snippets)
    /\ results.llm.err = "nil"

(***************************************************************************)
(* The HTTP demo: SimpleServer.handleLLMQuery on one request.  The handler *)
(* starts a goroutine that runs the child process and sends its result on  *)
(* an unbuffered channel, then waits in a select for the result or for the *)
(* timer it started on entering the select.  A waiting select is committed *)
(* by the first of the two events.  Three minutes are far longer than the  *)
(* goroutine needs to start the child or to report that it cannot, so the  *)
(* timer fires after that.                                                 *)
(***************************************************************************)
StatusOK == 200
StatusBadRequest == 400
StatusInternalServerError == 500
StatusGatewayTimeout == 504

\* fmt.Sprintf("%q", t) for printable bytes: quotes around, quotes and
\* backslashes escaped.
RECURSIVE Escaped(_)
Escaped(t) ==
    IF Len(t) = 0 THEN <<>>
    ELSE (IF t[1] \in {"\"", "\\"} THEN <<"\\", t[1]>> ELSE <<t[1]>>) \o Escaped(Tail(t))

Quoted(t) == <<"\"">> \o Escaped(t) \o <<"\"">>

\* The arguments of the command.
ArgsOf(query, lang, minScore) ==
    <<<<"-", "-", "q", "u", "e", "r", "y">>, <<"-", "-", "l", "l", "m", "-", "r", "e", "s", "p", "o", "n", "s", "e">>, <<"-", "-", "q", "u", "e", "r", "y", "-", "s", "t", "r", "i", "n", "g">>, Quoted(query)>>
    \o (IF lang # EmptyStr THEN <<<<"-", "-", "l", "a", "n", "g", "u", "a", "g", "e", "s">>, lang>> ELSE <<>>)
    \o <<<<"-", "-", "m", "i", "n", "-", "s", "c", "o", "r", "e">>, IF minScore = EmptyStr THEN <<"0", ".", "1">> ELSE minScore>>

Response(status, body) == [status |-> status, body |-> body]

\* "Error executing LLM query: %v\nOutput: %s": the error, then the output.
ErrorBody(r) == <<r.err>> \o r.output

NoChild == [state |-> "none", output |-> EmptyStr, ok |-> TRUE]

\* A handler that takes the result whenever it is sent.
AlwaysReceives(h) == TRUE

\* The handler takes the result only while it waits in the select.
Receives(h) == h = "select"

HttpQueries == {EmptyStr, <<"w", "h", "y">>, <<"a", " ", "\"", "b", "\"">>}
HttpLanguages == {EmptyStr, <<"G", "o">>}
HttpMinScores == {EmptyStr, <<"0", ".", "5">>}
ChildOutputs == {EmptyStr, <<"a", "n", "s", "w", "e", "r">>}

HttpInit ==
    /\ ChunkParked
    /\ IngestParked
    /\ SearchParked
    /\ WalkParked
    /\ CallParked
    /\ MainParked
    /\ config = DefaultConfig
    /\ httpRequest \in [method : {"GET", "OPTIONS"}, query : HttpQueries,
                        language : HttpLanguages, min_score : HttpMinScores]
    /\ hpc = "received"
    /\ worker = "none"
    /\ child = NoChild
    /\ cmdArgs = <<>>
    /\ result = NoValue
    /\ responses = <<>>

\* The handler up to its select: it answers an OPTIONS request and a request
\* without query at once, else it builds the command and starts the goroutine.
HandleLLMQuery ==
    /\ hpc = "received"
    /\ IF httpRequest.method = "OPTIONS"
       THEN /\ responses' = Append(responses, Response(StatusOK, EmptyStr))
            /\ hpc' = "done"
            /\ UNCHANGED <<worker, cmdArgs>>
       ELSE IF httpRequest.query = EmptyStr
       THEN /\ responses' = Append(responses, Response(StatusBadRequest,
                                                       <<"M", "i", "s", "s", "i", "n", "g", " ", "q", "u", "e", "r", "y", " ", "p", "a", "r", "a", "m", "e", "t", "e", "r">>))
            /\ hpc' = "done"
            /\ UNCHANGED <<worker, cmdArgs>>
       ELSE /\ cmdArgs' = ArgsOf(httpRequest.query, httpRequest.language,
                                 httpRequest.min_score)
            /\ worker' = "start"
            /\ hpc' = "select"
            /\ UNCHANGED responses
    /\ UNCHANGED <<config, chunkVars, ingestVars, searchVars, walkVars, callVars,
                   mainVars,
                   httpRequest, child, result>>

\* The goroutine: cmd.CombinedOutput starts the child, or fails to.
StartChild ==
    /\ worker = "start"
    /\ \/ /\ child' = [NoChild EXCEPT !.state = "running"]
          /\ worker' = "wait"
          /\ UNCHANGED result
       \/ /\ result' = [output |-> EmptyStr, err |-> "start"]
          /\ worker' = "send"
          /\ UNCHANGED child
    /\ UNCHANGED <<config, chunkVars, ingestVars, searchVars, walkVars, callVars,
                   mainVars,
                   httpRequest, hpc, cmdArgs, responses>>

\* The child process exits on its own.
ChildExits ==
    /\ child.state = "running"
    /\ \E out \in ChildOutputs, ok \in BOOLEAN :
          child' = [state |-> "exited", output |-> out, ok |-> ok]
    /\ UNCHANGED <<config, chunkVars, ingestVars, searchVars, walkVars, callVars,
                   mainVars,
                   httpRequest, hpc, worker, cmdArgs, result, responses>>

\* The goroutine: cmd.CombinedOutput returns once the child is gone.
OutputRead ==
    /\ worker = "wait"
    /\ child.state \in {"exited", "killed"}
    /\ result' = [output |-> child.output,
                  err |-> IF child.state = "killed" THEN "killed"
                          ELSE IF child.ok THEN "nil" ELSE "exit"]
    /\ worker' = "send"
    /\ UNCHANGED <<config, chunkVars, ingestVars, searchVars, walkVars, callVars,
                   mainVars,
                   httpRequest, hpc, child, cmdArgs, responses>>

\* case result := <-outputChan: the goroutine's send meets the select.
ResultReceived ==
    /\ worker = "send"
    /\ Receives(hpc)
    /\ responses' = Append(responses,
                           IF result.err # "nil"
                           THEN Response(StatusInternalServerError, ErrorBody(result))
                           ELSE Response(StatusOK, result.output))
    /\ worker' = "done"
    /\ hpc' = "done"
    /\ UNCHANGED <<config, chunkVars, ingestVars, searchVars, walkVars, callVars,
                   mainVars,
                   httpRequest, child, cmdArgs, result>>

\* case <-time.After(timeoutDuration): the child is killed if it still runs.
TimedOut ==
    /\ hpc = "select"
    /\ worker # "start"
    /\ child.state # "none"
    /\ child' = IF child.state = "running" THEN [child EXCEPT !.state = "killed"] ELSE child
    /\ responses' = Append(responses, Response(StatusGatewayTimeout,
                                               <<"L", "L", "M", " ", "q", "u", "e", "r", "y", " ", "t", "i", "m", "e", "d", " ", "o", "u", "t", " ", "a", "f", "t", "e", "r", " ", "3", "m", "0", "s">>))
    /\ hpc' = "done"
    /\ UNCHANGED <<config, chunkVars, ingestVars, searchVars, walkVars, callVars,
                   mainVars,
                   httpRequest, worker, cmdArgs, result>>

HttpNext ==
    HandleLLMQuery \/ StartChild \/ ChildExits \/ OutputRead \/ ResultReceived \/ TimedOut

\* The handler and the goroutine are scheduled, and the timer fires.
SpecHttp ==
    /\ HttpInit
    /\ [][HttpNext]_vars
    /\ WF_vars(HandleLLMQuery)
    /\ WF_vars(StartChild)
    /\ WF_vars(OutputRead)
    /\ WF_vars(ResultReceived)
    /\ WF_vars(TimedOut)

(***************************************************************************)
(* The responses of the LLM query handler                                  *)
(***************************************************************************)
Answered == hpc = "done" /\ Len(responses) = 1

\* The request runs the command.
RunsCommand == httpRequest.method # "OPTIONS" /\ httpRequest.query # EmptyStr

\* The response is the child's: its output, or a 500 error.
ChildsAnswer ==
    /\ result # NoValue
    /\ \/ responses[1] = Response(StatusOK, result.output) /\ result.err = "nil"
       \/ /\ responses[1] = Response(StatusInternalServerError,
                                     <<result.err>> \o result.output)
          /\ result.err # "nil"

\* C20 as stated, its part on a finished child: a request that ran the
\* command is answered with the child's output or a 500 error if the child
\* finished, and with 504 after the child was killed if it did not.
C20_FinishedChildAnswers ==
    Answered /\ RunsCommand =>
        /\ child.state = "exited" => ChildsAnswer
        /\ responses[1].status = StatusGatewayTimeout => child.state = "killed"

\* Never more than one response; the child's response only when its result
\* was handed to the waiting handler; 504 only when the timer fired first,
\* and then the child runs no more and its result is never handed over.
OneResponse ==
    /\ Len(responses) <= 1
    /\ hpc = "done" => Len(responses) = 1
    /\ Answered /\ RunsCommand =>
          \/ worker = "done" /\ ChildsAnswer
          \/ /\ worker # "done"
             /\ responses[1].status = StatusGatewayTimeout
             /\ child.state \in {"killed", "exited", "none"}

\* C20, amended: each request gets exactly one response, in the end and
\* never a second one.  If the result of the child is handed to the handler
\* before the timer fires, the response is the child's output or a 500 error;
\* otherwise it is 504, the child is killed if it still runs, and a result
\* that arrives later is never written.
C20_ExactlyOneResponse == [](OneResponse) /\ <>[](Len(responses) = 1)

\* The timer fired on a child that still ran: it was killed, its result was
\* read by the goroutine and stays unsent after the 504 response.
C20_Witness ==
    /\ Answered
    /\ responses[1].status = StatusGatewayTimeout
    /\ child.state = "killed"
    /\ worker = "send"
    /\ result.err = "killed"
(***************************************************************************)
(* The choice of the chunker                                               *)
(***************************************************************************)

\* The size-based chunker is to be used: the language is not Go, or the
\* function patterns matched fewer than two times.
SizeBasedCase == language # GoLabel \/ Len(allMatches(content)) < 2

StructuralTypes == {FunctionType, MethodType}

\* C21: chunkFile returns the chunks of the size-based chunker (all of type
\* chunk) exactly when the language is not Go or fewer than two function or
\* method matches were found; with two or more matches it returns exactly the
\* structural chunks, one per match and each of type function or method; no
\* returned chunk has another entity type than function, method or chunk.
C21_ChunkerChoice ==
    Chunked =>
        /\ \A i \in 1..Len(chunks) :
              chunks[i].EntityType \in StructuralTypes \cup {ChunkType}
        /\ SizeBasedCase <=> (\E i \in 1..Len(chunks) : chunks[i].EntityType = ChunkType)
        /\ SizeBasedCase =>
              /\ chunks = WithIds(PathOf(language),
                                  chunkBySize(config, content, PathOf(language),
                                              ProjectDir, language))
              /\ \A i \in 1..Len(chunks) : chunks[i].EntityType = ChunkType
        /\ ~SizeBasedCase =>
              /\ chunks = WithIds(PathOf(language),
                                  chunkGoCode(content, PathOf(language), ProjectDir))
              /\ Len(chunks) = Len(allMatches(content))
              /\ \A i \in 1..Len(chunks) :
                    /\ chunks[i].EntityType \in StructuralTypes
                    /\ chunks[i].EntityType = MethodType <=> allMatches(content)[i].isMethod
                    /\ chunks[i].Name = allMatches(content)[i].name

\* A Go text with a function and a method was chunked structurally.
C21_Witness ==
    /\ Chunked
    /\ language = GoLabel
    /\ Len(allMatches(content)) >= 2
    /\ \E i, j \in 1..Len(chunks) :
          chunks[i].EntityType = FunctionType /\ chunks[j].EntityType = MethodType
(***************************************************************************)
(* The rows storeChunks writes                                             *)
(***************************************************************************)
\* The chunks the last call handed to storeChunks, with their embeddings.
StoredChunksOfCall ==
    WithEmbeddings(ChunksOfCall(lastCall.text),
                   VectorsOf(TextsOf(ChunksOfCall(lastCall.text))))

WrittenIds == {lastCall.writes[k] : k \in 1..Len(lastCall.writes)}

\* The row holds the attribute with the value v.
Holds(row, attribute, v) == attribute \in DOMAIN row /\ row[attribute] = v

RowEquals(row, c) ==
    /\ Holds(row, "content", c.Content)
    /\ Holds(row, "file_path", c.FilePath)
    /\ Holds(row, "project_path", c.ProjectPath)
    /\ Holds(row, "start_line", c.StartLine)
    /\ Holds(row, "end_line", c.EndLine)
    /\ Holds(row, "entity_type", c.EntityType)
    /\ Holds(row, "name", c.Name)
    /\ Holds(row, "signature", c.Signature)
    /\ Holds(row, "language", c.Language)
    /\ Holds(row, "hash", c.Hash)
    /\ Holds(row, "embedding", c.Embedding)

\* C22: after a processFile call whose transaction committed, every chunk of
\* the call that storeChunks did not skip has a Chunk row whose content,
\* file_path, project_path, start_line, end_line, entity_type, name,
\* signature, language, hash and embedding equal the chunk's, and the row is
\* PART_OF the File node of its file_path.
C22_WrittenRowEqualsChunk ==
    lastCall.outcome = "ok" =>
        \A i \in 1..Len(StoredChunksOfCall) :
            StoredChunksOfCall[i].ID \in WrittenIds =>
                /\ StoredChunksOfCall[i].ID \in DOMAIN store.chunks
                /\ RowEquals(store.chunks[StoredChunksOfCall[i].ID], StoredChunksOfCall[i])
                /\ StoredChunksOfCall[i].FilePath \in DOMAIN store.files
                /\ <<StoredChunksOfCall[i].ID, StoredChunksOfCall[i].FilePath>> \in store.partOf
(***************************************************************************)
(* Nothing is deleted                                                      *)
(***************************************************************************)
\* The ids of the chunks the last call's file has now.
IdsOfCall == {ChunksOfCall(lastCall.text)[i].ID : i \in 1..Len(ChunksOfCall(lastCall.text))}

\* The rows of the last call's file that none of its chunks has any more.
StaleIds ==
    {id \in DOMAIN store.chunks :
        store.chunks[id].file_path = lastCall.path /\ id \notin IdsOfCall}

\* A similarity to the query that passes the thresholds for every row.
Similar == [id \in DOMAIN store.chunks |-> 50]

NothingDeleted ==
    /\ DOMAIN store.projects \subseteq DOMAIN store'.projects
    /\ DOMAIN store.files \subseteq DOMAIN store'.files
    /\ DOMAIN store.chunks \subseteq DOMAIN store'.chunks
    /\ store.belongsTo \subseteq store'.belongsTo
    /\ store.partOf \subseteq store'.partOf

\* C23: no step of an ingest run removes a Project, a File or a Chunk node
\* (or a relationship): the sets of Project paths, File paths and Chunk ids
\* only grow; the rows of a re-ingested file that none of its chunks has any
\* more stay in the store, and every stored row, those included, is a
\* candidate of the searches.
C23_NodesNeverDeleted ==
    /\ [][NothingDeleted]_vars
    /\ [](lastCall.outcome = "ok" =>
             /\ StaleIds \subseteq SearchCodeRows(store, Similar)
             /\ StaleIds \subseteq AdvancedRows(store, Similar, <<>>, <<>>, 10, FALSE, <<>>))

\* A file was stored again after an edit changed its line ranges, and a row
\* of its earlier chunks is left.
C23_Witness == Reingested /\ lastCall.writes # <<>> /\ StaleIds # {}
(***************************************************************************)
(* The candidate set of SearchCodeAdvanced                                 *)
(***************************************************************************)
ElementsOf(list) == {list[i] : i \in 1..Len(list)}

LongKeywords(query) == {k \in ElementsOf(extractKeywords(query)) : Len(k) > 3}

\* The three conditions of the claim on a stored row.
InLanguages(row) ==
    request.languages # <<>> => row.language \in ElementsOf(request.languages)

MatchesAGlob(row) ==
    request.pathFilters # <<>> =>
        \E g \in ElementsOf(request.pathFilters) :
            RegexMatches(row.file_path, globToRegex(g))

HasAKeyword(row) ==
    (request.useKeywords /\ LongKeywords(request.query) # {}) =>
        \E k \in LongKeywords(request.query) : Contains(row.content, k)

Candidates ==
    {id \in DOMAIN store.chunks :
        InLanguages(store.chunks[id]) /\ MatchesAGlob(store.chunks[id])
        /\ HasAKeyword(store.chunks[id])}

\* The candidates whose vectorScore and adjusted score are above min_score.
PassingCandidates ==
    {id \in Candidates :
        /\ cosine[id] > request.minScore
        /\ Score(store.chunks[id], cosine[id]) > request.minScore}

AdvancedSearched == Searched /\ request.op = "SearchCodeAdvanced"

\* The corpus of the example: two Go chunks and one Python chunk, every one
\* similar enough to the query.
ExampleCorpus ==
    /\ Cardinality({id \in DOMAIN store.chunks : store.chunks[id].language = GoLabel}) = 2
    /\ Cardinality({id \in DOMAIN store.chunks : store.chunks[id].language = PythonLabel}) = 1
    /\ Cardinality(DOMAIN store.chunks) = 3
    /\ \A id \in DOMAIN store.chunks : cosine[id] > request.minScore

\* C24: the rows SearchCodeAdvanced returns are drawn from exactly the chunks
\* that satisfy all of: the language is one of languages (when not empty),
\* the file path matches one of the path globs (when not empty), the content
\* contains one of the query's keywords of more than 3 bytes (when keywords
\* are in use and there is one).  Every returned row is such a candidate above
\* min_score and, up to the limit, every such candidate is returned.  With
\* chunks in languages Go, Python, Go the filter languages = [Go] returns at
\* most the two Go chunks, and with a glob that matches only the Python file
\* added it returns no row.
C24_CandidatesAreConjunction ==
    AdvancedSearched =>
        /\ Returned \subseteq PassingCandidates
        /\ Cardinality(Returned) = Len(results.chunks)
        /\ Len(results.chunks) = Min(request.limit, Cardinality(PassingCandidates))
        /\ (ExampleCorpus /\ request.languages = <<GoLabel>>) =>
              /\ Len(results.chunks) <= 2
              /\ \A i \in 1..Len(results.chunks) : results.chunks[i].Language = GoLabel
              /\ request.pathFilters = <<GlobPy>> => results.chunks = <<>>

\* The example: the ranking query ran on the two Go chunks and the Python
\* chunk with languages = [Go] and the glob of the Python file, and returned
\* no row.
C24_Witness ==
    /\ AdvancedSearched
    /\ ExampleCorpus
    /\ request.languages = <<GoLabel>>
    /\ request.pathFilters = <<GlobPy>>
    /\ ~request.useKeywords
    /\ results.ran = <<"count", "rank">>
    /\ results.chunks = <<>>
(***************************************************************************)
(* The order of the ingest steps                                           *)
(***************************************************************************)
CallChunks == ChunksOfCall(lastCall.text)

\* The positions of the steps of the last call that called op.
StepsAt(op) == {k \in 1..Len(lastCall.steps) : lastCall.steps[k].op = op}

\* The call went as far as the embedding service.
ReachedEmbedding == lastCall.outcome \in {"ok", "store_error", "embed_error"}

ChunkEmbedStore ==
    /\ Cardinality(StepsAt("chunkFile")) <= 1
    /\ Cardinality(StepsAt("getEmbeddings")) <= 1
    /\ Cardinality(StepsAt("storeChunks")) <= 1
    /\ \A c \in StepsAt("chunkFile"), e \in StepsAt("getEmbeddings") : c < e
    /\ \A e \in StepsAt("getEmbeddings"), s \in StepsAt("storeChunks") : e < s
    /\ StepsAt("getEmbeddings") # {} => StepsAt("chunkFile") # {}
    /\ StepsAt("storeChunks") # {} =>
          StepsAt("getEmbeddings") # {} /\ lastCall.outcome \in {"ok", "store_error"}
    /\ ReachedEmbedding =>
          \E e \in StepsAt("getEmbeddings") :
              lastCall.steps[e].texts = [i \in 1..Len(CallChunks) |-> CallChunks[i].Content]
    /\ lastCall.outcome \in {"ok", "store_error"} => StepsAt("storeChunks") # {}
    /\ lastCall.outcome = "embed_error" =>
          StepsAt("storeChunks") = {} /\ lastCall.writes = <<>> /\ ~lastCall.dirty

SameRange(a, b) == a.StartLine = b.StartLine /\ a.EndLine = b.EndLine

\* C26: in the list one chunkFile call returns no two chunks have the same
\* (start_line, end_line) pair, hence no two chunks of one file share an id;
\* for the size-based chunker and for the Go chunker, two function matches
\* starting on the same line included.
C26_DistinctRanges ==
    Chunked =>
        \A i, j \in 1..Len(chunks) :
            i # j => ~SameRange(chunks[i], chunks[j]) /\ chunks[i].ID # chunks[j].ID
(***************************************************************************)
(* The content of a chunk and its line range                               *)
(***************************************************************************)
\* The text of the lines a to b of the file.
LinesText(a, b) == JoinLines(SubSeq(LinesOfContent, a, b))

\* C27: the content of every chunk chunkFile returns is exactly the text of
\* the file's lines start_line to end_line, so that the k-th line of the
\* content is line start_line + k - 1 of the file; for the size-based chunks
\* and for the structural Go chunks.
C27_ContentIsItsLines ==
    Chunked =>
        \A i \in 1..Len(chunks) :
            /\ ValidRange(chunks[i])
            /\ chunks[i].EndLine <= Len(LinesOfContent)
            /\ chunks[i].Content = LinesText(chunks[i].StartLine, chunks[i].EndLine)
(***************************************************************************)
(* chunkFile returns a chunk for every text                                *)
(***************************************************************************)
\* The Chunk rows of the last call's file.
RowsOfCallFile == {id \in DOMAIN store.chunks : store.chunks[id].file_path = lastCall.path}

\* C28: chunkFile returns at least one chunk for every text, the empty text
\* included, and every configuration, so processFile never takes its branch
\* for a file without chunks: a file that was read is sent to the embedding
\* service, and an empty file is embedded and stored as one chunk with empty
\* content.
C28_NeverNoChunks ==
    lastCall.outcome # "none" =>
        /\ Len(CallChunks) >= 1
        /\ lastCall.outcome # "skipped"
        /\ StepsAt("getEmbeddings") # {}
        /\ (lastCall.text = EmptyStr /\ lastCall.outcome = "ok") =>
              /\ Len(CallChunks) = 1
              /\ \A e \in StepsAt("getEmbeddings") : lastCall.steps[e].texts = <<EmptyStr>>
              /\ RowsOfCallFile = {CallChunks[1].ID}
              /\ \A id \in RowsOfCallFile :
                    /\ store.chunks[id].content = EmptyStr
                    /\ store.chunks[id].start_line = 1
                    /\ store.chunks[id].end_line = 1

\* An empty file was processed and stored as one chunk with empty content.
C28_Witness ==
    /\ lastCall.outcome = "ok"
    /\ lastCall.text = EmptyStr
    /\ lastCall.writes # <<>>
    /\ \E id \in RowsOfCallFile : store.chunks[id].content = EmptyStr
(***************************************************************************)
(* The goroutine of the LLM query handler                                  *)
(***************************************************************************)
\* C29: the goroutine that runs the child process and sends its result on
\* the channel always terminates, also when the handler took the timeout
\* branch and returned: it never stays blocked on the send.
C29_WorkerTerminates == (worker = "start") ~> (worker = "done")
(***************************************************************************)
(* The interactive query loop of main: the prompt is printed, a line is    *)
(* read from standard input and trimmed; "exit" leaves the loop, an empty  *)
(* query starts the next turn, any other query is passed to processQuery.  *)
(* The prompts are counted up to MaxPrompts, then from 1 again.            *)
(***************************************************************************)
MaxInputLines == 2     \* finished lines on standard input
MaxPrompts == 5        \* prompts counted

ExitWord == <<"e", "x", "i", "t">>

WhiteSpace == {" ", "\t", "\n", "\r", "\f"}

\* strings.TrimSpace
TrimSpace(t) == Trim(t, WhiteSpace)

\* reader.ReadString('\n'): the next line with its newline; at the end of the
\* input what is left of it (nothing, from the second such read on) and the
\* error io.EOF.
ReadString(in) ==
    IF Len(in.lines) > 0
    THEN [data |-> Head(in.lines) \o <<"\n">>, err |-> "nil",
          rest |-> [in EXCEPT !.lines = Tail(in.lines)]]
    ELSE [data |-> in.tail, err |-> "EOF", rest |-> [in EXCEPT !.tail = EmptyStr]]

\* if query == "exit" { break }: the error of the read is dropped.
Breaks(query, err) == query = ExitWord

InputLines == {EmptyStr, ExitWord, <<" ", "e", "x", "i", "t">>, <<"e", "x", "i", "t", " ", "n", "o", "w">>, <<"w", "h", "y">>}

InputTails == {EmptyStr, ExitWord, <<"w", "h", "y">>}

Inputs ==
    [lines : UNION {[1..n -> InputLines] : n \in 0..MaxInputLines}, tail : InputTails]

LoopInit ==
    /\ ChunkParked
    /\ IngestParked
    /\ SearchParked
    /\ WalkParked
    /\ CallParked
    /\ HttpParked
    /\ config = DefaultConfig
    /\ stdin \in Inputs
    /\ prompts = 0
    /\ asked = <<>>
    /\ mpc = "loop"

\* What a turn does with the query it read.
Turn(query, err) ==
    IF Breaks(query, err) THEN mpc' = "exited" /\ UNCHANGED asked
    ELSE IF query = EmptyStr THEN UNCHANGED <<mpc, asked>>
    ELSE asked' = Append(asked, query) /\ UNCHANGED mpc

\* One turn of the loop.
ReadQuery ==
    /\ mpc = "loop"
    /\ prompts' = IF prompts >= MaxPrompts THEN 1 ELSE prompts + 1
    /\ stdin' = ReadString(stdin).rest
    /\ Turn(TrimSpace(ReadString(stdin).data), ReadString(stdin).err)
    /\ UNCHANGED <<config, chunkVars, ingestVars, searchVars, walkVars, callVars, httpVars>>

LoopNext == ReadQuery

\* The loop keeps running while it can.
SpecLoop == LoopInit /\ [][LoopNext]_vars /\ WF_vars(ReadQuery)

\* Standard input is at its end: a read returned io.EOF.
AtEOF == stdin.lines = <<>> /\ stdin.tail = EmptyStr

\* C30: the interactive query loop terminates once its input ends: after
\* standard input reached end-of-file the loop exits, as it does on the line
\* "exit", and does not prompt again and again.
C30_LoopExitsAtEOF == <>(mpc = "exited")

====
